---------------------------- MODULE Spec2Model ----------------------------
(***************************************************************************)
(* Model of the in-memory stores of the temporary-mail backend:            *)
(*   - the API email store (apiMemoryStore.js, src/unnamed/part_000):      *)
(*     entity table, owner index, address index, daily usage counters,     *)
(*     one-shot expiry timers and the periodic sweep;                      *)
(*   - the per-user custom-domain usage cache with batched writes          *)
(*     (src/src/middleware/customDomainRateLimit.js, lines 239-641).       *)
(* Time is counted in units of five minutes.                               *)
(***************************************************************************)
EXTENDS Integers, Sequences, FiniteSets, TLC

(***************************************************************************)
(* Bounds of the model.                                                    *)
(***************************************************************************)
\* ids handed out by uuidv4() in the store specification
MaxIds == 2
\* ids handed out in the quota specification
MaxQuotaIds == 6
\* days the clock passes in the quota specification
MaxQuotaDays == 1
\* ids handed out in the message specification
MaxMsgIds == 1
\* messages accepted per entity in the store specification
MaxMsgs == 1
\* messages accepted per entity in the message specification
MaxMsgRun == 52
\* clock ticks after process start in the store specification
MaxTicks == 1
\* increments of the custom-domain usage in the usage specification
MaxIncs == 2
\* clock steps of thirteen hours in the usage specification
MaxUsageTicks == 2
\* ids handed out in the domain specification
MaxDomainIds == 2
\* calls of createApiEmail suspended in validateUserDomain at one time
MaxQueries == 1
\* clock steps of thirty-five minutes in the domain specification
MaxDomainTicks == 2
\* ids handed out in the metered specification
MaxMeteredIds == 2
\* ids handed out in the race specification
MaxRaceIds == 6
\* creates suspended at once in the race specification
MaxRaceQueries == 2
\* clock steps past the alias TTL in the fetch specification
MaxFetchTicks == 2
\* the requestsPerMinute the limiter is built with
MaxPerMinute == 2
\* clock steps of the rate specification
MaxRateTicks == 2
\* ids handed out in the shutdown specification
MaxShutdownIds == 1
\* increments issued in the shutdown specification
MaxShutdownIncs == 1
\* websockets opened in the alias specification
MaxClients == 2
\* steps of the clock in the alias specification
MaxAliasTicks == 2
\* ids handed out in the list specification
MaxListIds == 3
\* clock ticks of ten minutes in the list specification
MaxListTicks == 2

(***************************************************************************)
(* Program constants.                                                      *)
(***************************************************************************)
Limit10min == 20
Limit1hour == 10
Limit1day == 5
TenMin == 2
OneHour == 12
OneDay == 288
DomainsTTL == 6
UserDomainsTTL == 1
MaxMessages == 50
CleanupAge == 300
\* the clock's unit, five minutes, in milliseconds
MsPerTick == 300000
WindowMs == 60000
FiveMinutesMs == 300000
AliasTTL == 2016
MaxAttempts == 10
DAILY_LIMIT == 20
TOTAL_LIMIT == 100

Owners == {"u1", "u2"}
\* req.apiUser.tier, the quota level the route passes as userTier
QuotaLevel(userId) == IF userId = "u3" THEN "unlimited" ELSE "free"
Tiers == {"10min", "1hour", "1day"}
Privileged == {"unlimited", "enterprise"}
UserTiers == {"free"} \cup Privileged
LocalParts == {"aaaaaaaa", "bbbbbbbb"}
DefaultDomain == "boomlify.com"
NoDomain == ""
PublicDomains == {"pub.test"}
Flushers == {"interval", "signal"}
IntervalFlushers == {"interval"}

VARIABLES
  now,                \* Date.now(), in units of five minutes
  apiEmailStore,      \* emailId -> emailData
  userApiEmailIndex,  \* userId -> set of emailIds
  emailToApiUserMap,  \* email -> [userId, emailId]
  usageCounters,      \* <<userId, day>> -> [tier -> count]
  timers,             \* armed setTimeout callbacks: [emailId, fireAt]
  nextId,             \* the next value uuidv4() returns
  domainsCache,       \* [domains, lastUpdate]
  userDomainsCache,   \* userId -> [domains, expiresAt]
  dbDomains,          \* table domains
  dbCustomDomains,    \* table custom_domains: id -> row
  users,              \* customDomainUsageCache.users: userId -> usage
  pendingOperations,  \* customDomainUsageCache.pendingOperations: userId -> operation
  pendingOrder,       \* the keys of pendingOperations in insertion order
  flush,              \* the runs of flushPendingOperations: where each one is
  issued,             \* userId -> increments made (history)
  queries,            \* the queries of validateUserDomain that are in flight
  aliasCache,         \* alias -> [userId, lastUsed]
  connectedClients,   \* the entries [key, set] of the Map, in insertion order
  sockets,            \* websocket -> its readyState and the handler's closure
  emailCache,         \* cache key -> the cached email, with the owner of the alias when it was stored
  process,            \* the signal received, and whether the process has exited
  dbUsageDaily,       \* the rows of api_usage_daily
  requestCounts,      \* the rate limiter's Map: key -> requests counted in the window
  passed,             \* <<userId, windowStart>> -> requests the limiter let pass (history)
  granted,            \* <<userId, tier, day>> -> creates that succeeded (history)
  last                \* the last call: name, arguments, return value

storeVars == <<apiEmailStore, userApiEmailIndex, emailToApiUserMap>>
cacheVars == <<domainsCache, userDomainsCache>>
dbVars == <<dbDomains, dbCustomDomains>>
usageVars == <<users, pendingOperations, pendingOrder, flush, issued>>
gmailVars == <<aliasCache, connectedClients, sockets, emailCache>>
limitVars == <<requestCounts, passed>>
procVars == <<process, dbUsageDaily, limitVars>>
vars == <<now, apiEmailStore, userApiEmailIndex, emailToApiUserMap, usageCounters,
          timers, nextId, domainsCache, userDomainsCache, dbDomains,
          dbCustomDomains, users, pendingOperations, pendingOrder, flush, issued,
          queries, aliasCache, connectedClients, sockets, emailCache, process,
          dbUsageDaily, requestCounts, passed, granted, last>>

(***************************************************************************)
(* Maps: a JavaScript Map is a function whose domain is its key set.       *)
(***************************************************************************)
MapSet(m, k, v) == [x \in DOMAIN m \cup {k} |-> IF x = k THEN v ELSE m[x]]
MapDelete(m, k) == [x \in DOMAIN m \ {k} |-> m[x]]
EmptyMap == [x \in {} |-> 0]

(***************************************************************************)
(* Return values.                                                          *)
(***************************************************************************)
RetNull == [kind |-> "null"]
RetBool(b) == [kind |-> "bool", val |-> b]
RetEntity(e) == [kind |-> "entity", val |-> e]
RetError(m) == [kind |-> "error", val |-> m]
RetList(s) == [kind |-> "list", val |-> s]
RetNone == [kind |-> "none"]
NoEntity == [id |-> -1]

(***************************************************************************)
(* Dates.  new Date().toISOString().split('T')[0] is the UTC date; the     *)
(* process starts on the 20th of a month of 31 days.                       *)
(***************************************************************************)
DayOf(t) == t \div OneDay
DayOfMonth(d) == (d % 31) + 1
StartTime == 19 * OneDay

FREE_LIMITS(timeTier) ==
  CASE timeTier = "10min" -> Limit10min
    [] timeTier = "1hour" -> Limit1hour
    [] timeTier = "1day" -> Limit1day

calculateExpiry(timeTier) ==
  CASE timeTier = "10min" -> now + TenMin
    [] timeTier = "1hour" -> now + OneHour
    [] timeTier = "1day" -> now + OneDay
    [] OTHER -> now + TenMin

ZeroUsage == [t \in Tiers |-> 0]
UsageOf(counters, key) == IF key \in DOMAIN counters THEN counters[key] ELSE ZeroUsage

checkDailyLimit(userId, timeTier) ==
  UsageOf(usageCounters, <<userId, DayOf(now)>>)[timeTier] < FREE_LIMITS(timeTier)

\* the increment skipped for the owners of a privileged level
updateUsageCounterOfFree(userId, timeTier) ==
  LET key == <<userId, DayOf(now)>>
      usage == UsageOf(usageCounters, key)
  IN IF QuotaLevel(userId) \in Privileged
       THEN usageCounters
       ELSE MapSet(usageCounters, key, [usage EXCEPT ![timeTier] = @ + 1])

updateUsageCounter(userId, timeTier) ==
  LET key == <<userId, DayOf(now)>>
      usage == UsageOf(usageCounters, key)
  IN MapSet(usageCounters, key, [usage EXCEPT ![timeTier] = @ + 1])

(***************************************************************************)
(* Domain resolution.  Each operator returns the value and the caches as   *)
(* the call leaves them.  dbOk says whether pool.query succeeds.           *)
(***************************************************************************)
RefreshedDomains == [domains |-> dbDomains, lastUpdate |-> now]

\* what became of the refresh of the public list (history)
Refresh(needed, dbOk) == IF ~needed THEN "none" ELSE IF dbOk THEN "ok" ELSE "failed"

\* getRandomDomain: the value is the set of domains the random pick ranges over
getRandomDomain(dbOk) ==
  LET stale == (now - domainsCache.lastUpdate > DomainsTTL) \/ domainsCache.domains = {}
      dc == IF stale /\ dbOk THEN RefreshedDomains ELSE domainsCache
  IN IF stale /\ ~dbOk
       THEN [choices |-> {DefaultDomain}, dc |-> domainsCache, refresh |-> "failed"]
       ELSE [choices |-> IF dc.domains # {} THEN dc.domains ELSE {DefaultDomain},
             dc |-> dc, refresh |-> Refresh(stale, dbOk)]

\* the query without its user_id condition
VerifiedRowsAnyOwner(userId) ==
  {d \in DOMAIN dbCustomDomains : dbCustomDomains[d].status = "verified"}

\* SELECT id FROM custom_domains WHERE user_id = ? AND status = 'verified'
VerifiedRows(userId) ==
  {d \in DOMAIN dbCustomDomains :
     dbCustomDomains[d].user_id = userId /\ dbCustomDomains[d].status = "verified"}

\* SELECT domain FROM custom_domains WHERE user_id = ? AND status = 'verified'
VerifiedDomains(userId) == {dbCustomDomains[d].domain : d \in VerifiedRows(userId)}

\* list is the owner's list the call decided from, if it had one: its
\* domains, whether it came from the cache (hit), and whether it was read
\* from storage before an invalidation of the owner's entry (stale)
NoList == [known |-> FALSE, domains |-> {}, hit |-> FALSE, stale |-> FALSE]
ListOf(entry, hit) ==
  [known |-> TRUE, domains |-> entry.domains, hit |-> hit, stale |-> entry.stale]

validateUserDomain(userId, domain, dbOk) ==
  LET hit == userId \in DOMAIN userDomainsCache
             /\ userDomainsCache[userId].expiresAt > now
      fresh == [domains |-> VerifiedDomains(userId), expiresAt |-> now + UserDomainsTTL,
                stale |-> FALSE]
  IN IF hit
       THEN [val |-> IF domain \in userDomainsCache[userId].domains THEN domain ELSE NoDomain,
             udc |-> userDomainsCache, list |-> ListOf(userDomainsCache[userId], TRUE)]
     ELSE IF dbOk
       THEN [val |-> IF domain \in fresh.domains THEN domain ELSE NoDomain,
             udc |-> MapSet(userDomainsCache, userId, fresh), list |-> ListOf(fresh, FALSE)]
     ELSE [val |-> NoDomain, udc |-> userDomainsCache, list |-> NoList]

\* the fallback of createApiEmail: a requested domain that is a public domain
PublicFallback(customDomain, dbOk) ==
  LET isInCache == customDomain \in domainsCache.domains
      dc == IF ~isInCache /\ dbOk THEN RefreshedDomains ELSE domainsCache
  IN [val |-> IF customDomain \in dc.domains THEN customDomain ELSE NoDomain, dc |-> dc,
      refresh |-> Refresh(~isInCache, dbOk)]

\* the domain part of createApiEmail once validateUserDomain has returned
\* v; via tells which branch gave the domain
ResolveValidated(customDomain, v, dbOk2) ==
  LET f == PublicFallback(customDomain, dbOk2)
  IN IF v.val # NoDomain
       THEN [choices |-> {v.val}, dc |-> domainsCache, udc |-> v.udc, via |-> "custom",
             list |-> v.list, refresh |-> "none"]
       ELSE [choices |-> IF f.val # NoDomain THEN {f.val} ELSE {},
             dc |-> f.dc, udc |-> v.udc, via |-> "public", list |-> v.list,
             refresh |-> f.refresh]

\* the domain part of createApiEmail
ResolveDomain(userId, customDomain, dbOk1, dbOk2) ==
  IF customDomain # NoDomain
    THEN ResolveValidated(customDomain, validateUserDomain(userId, customDomain, dbOk1), dbOk2)
    ELSE LET g == getRandomDomain(dbOk1)
         IN [choices |-> g.choices, dc |-> g.dc, udc |-> userDomainsCache, via |-> "random",
             list |-> NoList, refresh |-> g.refresh]

(***************************************************************************)
(* Removal of one entity from the table and both indexes, as every         *)
(* removal path of the store does it.                                      *)
(***************************************************************************)
\* the owner index left as it is
IndexDeleteSkipped(index, userId, emailIds) == index

IndexDelete(index, userId, emailIds) ==
  IF userId \in DOMAIN index
    THEN [index EXCEPT ![userId] = @ \ emailIds]
    ELSE index

\* userApiEmailIndex.delete(userId) in place of .get(userId)?.delete(emailId)
RemoveEmailDropsOwner(st, emailId) ==
  LET email == st.store[emailId]
  IN [store |-> MapDelete(st.store, emailId),
      index |-> MapDelete(st.index, email.userId),
      addr |-> MapDelete(st.addr, email.email)]

\* the address index entry is left behind
RemoveEmailKeepsAddress(st, emailId) ==
  LET email == st.store[emailId]
  IN [store |-> MapDelete(st.store, emailId),
      index |-> IndexDelete(st.index, email.userId, {emailId}),
      addr |-> st.addr]

RemoveEmail(st, emailId) ==
  LET email == st.store[emailId]
  IN [store |-> MapDelete(st.store, emailId),
      index |-> IndexDelete(st.index, email.userId, {emailId}),
      addr |-> MapDelete(st.addr, email.email)]

StoreState == [store |-> apiEmailStore, index |-> userApiEmailIndex, addr |-> emailToApiUserMap]

SetStore(st) ==
  /\ apiEmailStore' = st.store
  /\ userApiEmailIndex' = st.index
  /\ emailToApiUserMap' = st.addr

\* a run of flushPendingOperations: where it is suspended (pc), the iterator
\* over pendingOperations.entries() (pos entries consumed), the entry in hand
\* (cur, op), the statements of its open transaction (writes); what it has
\* read (seen) and the users whose statements all ran (ok) are history
NoOperation == [dailyDelta |-> 0, totalDelta |-> 0, domainId |-> "", resetDaily |-> FALSE]
Idle == [pc |-> "idle", pos |-> 0, cur |-> "", op |-> NoOperation, writes |-> <<>>,
         seen |-> EmptyMap, ok |-> {}, arrived |-> {}]

\* the process before any signal; counters is usageCounters as the signal found it
Running == [signal |-> "none", exited |-> FALSE, synced |-> FALSE, counters |-> EmptyMap]

\* history of one owner: the increments made, the day of the last access,
\* and how far the owner is through: increments, then the first access of a
\* later day, then one run of the flush from start to commit
NoHistory == [n |-> 0, day |-> 0, phase |-> "none"]

Init ==
  /\ now = StartTime
  /\ apiEmailStore = EmptyMap
  /\ userApiEmailIndex = EmptyMap
  /\ emailToApiUserMap = EmptyMap
  /\ usageCounters = EmptyMap
  /\ timers = {}
  /\ nextId = 1
  /\ domainsCache = [domains |-> {}, lastUpdate |-> 0]
  /\ userDomainsCache = EmptyMap
  /\ dbDomains = PublicDomains
  /\ dbCustomDomains =
       [d \in {"d1", "d2"} |->
          [user_id |-> IF d = "d1" THEN "u1" ELSE "u2",
           domain |-> IF d = "d1" THEN "cust.test" ELSE "cust2.test",
           status |-> "verified", daily_count |-> 0, total_count |-> 0]]
  /\ users = EmptyMap
  /\ pendingOperations = EmptyMap
  /\ pendingOrder = <<>>
  /\ flush = [f \in Flushers |-> Idle]
  /\ issued = [u \in Owners |-> NoHistory]
  /\ queries = {}
  /\ aliasCache = EmptyMap
  /\ connectedClients = <<>>
  /\ sockets = EmptyMap
  /\ emailCache = EmptyMap
  /\ process = Running
  /\ dbUsageDaily = EmptyMap
  /\ requestCounts = EmptyMap
  /\ passed = EmptyMap
  /\ granted = EmptyMap
  /\ last = [name |-> "init", args |-> <<>>, ret |-> RetNone, pre |-> NoEntity]

GrantedOf(userId, timeTier, day) ==
  IF <<userId, timeTier, day>> \in DOMAIN granted THEN granted[<<userId, timeTier, day>>] ELSE 0

(***************************************************************************)
(* createApiEmail                                                          *)
(***************************************************************************)
\* createApiEmail from the resolved domain r on: the error for no domain,
\* or the entity, the indexes, the counter and the timer
CreateResolved(userId, timeTier, customDomain, userTier, rnd, r) ==
  LET args == [userId |-> userId, timeTier |-> timeTier, customDomain |-> customDomain,
               userTier |-> userTier]
  IN
  IF r.choices = {}
    THEN /\ last' = [name |-> "create", args |-> args,
                     ret |-> RetError("Domain is not available"),
                     pre |-> NoEntity, via |-> r.via, list |-> r.list,
                          refresh |-> r.refresh]
         /\ domainsCache' = r.dc
         /\ userDomainsCache' = r.udc
         /\ UNCHANGED <<now, storeVars, usageCounters, timers, nextId, dbVars, granted, usageVars, gmailVars, procVars>>
    ELSE \E domain \in r.choices :
           LET emailId == nextId
               email == <<rnd, domain>>
               expiresAt == calculateExpiry(timeTier)
               emailData == [id |-> emailId, email |-> email, userId |-> userId,
                             timeTier |-> timeTier, createdAt |-> now,
                             expiresAt |-> expiresAt, messages |-> <<>>,
                             domain |-> domain,
                             isCustomDomain |-> (customDomain # NoDomain)]
               idx == IF userId \in DOMAIN userApiEmailIndex
                        THEN userApiEmailIndex
                        ELSE MapSet(userApiEmailIndex, userId, {})
           IN /\ apiEmailStore' = MapSet(apiEmailStore, emailId, emailData)
              /\ userApiEmailIndex' = [idx EXCEPT ![userId] = @ \cup {emailId}]
              /\ emailToApiUserMap' = MapSet(emailToApiUserMap, email,
                                             [userId |-> userId, emailId |-> emailId])
              /\ usageCounters' = updateUsageCounter(userId, timeTier)
              /\ timers' = IF expiresAt - now > 0
                             THEN timers \cup {[emailId |-> emailId, fireAt |-> expiresAt]}
                             ELSE timers
              /\ nextId' = nextId + 1
              /\ domainsCache' = r.dc
              /\ userDomainsCache' = r.udc
              /\ last' = [name |-> "create", args |-> args, ret |-> RetEntity(emailData),
                          pre |-> NoEntity, via |-> r.via, list |-> r.list,
                          refresh |-> r.refresh]
              /\ granted' = MapSet(granted, <<userId, timeTier, DayOf(now)>>,
                                    GrantedOf(userId, timeTier, DayOf(now)) + 1)
              /\ UNCHANGED <<now, dbVars, usageVars, gmailVars, procVars>>

\* the call that runs with no other handler between its steps
createApiEmail(userId, timeTier, customDomain, userTier, rnd, dbOk1, dbOk2, maxIds) ==
  /\ nextId + Cardinality(queries) <= maxIds
  /\ IF userTier \notin Privileged /\ ~checkDailyLimit(userId, timeTier)
       THEN /\ last' = [name |-> "create",
                        args |-> [userId |-> userId, timeTier |-> timeTier,
                                  customDomain |-> customDomain, userTier |-> userTier],
                        ret |-> RetError("Daily limit exceeded"),
                        pre |-> NoEntity, via |-> "none", list |-> NoList,
                        refresh |-> "none"]
            /\ UNCHANGED <<now, storeVars, usageCounters, timers, nextId, cacheVars, dbVars,
                           granted, usageVars, gmailVars, procVars>>
       ELSE CreateResolved(userId, timeTier, customDomain, userTier, rnd,
                           ResolveDomain(userId, customDomain, dbOk1, dbOk2))
  /\ UNCHANGED queries

\* the call suspended in validateUserDomain: the owner's list is not cached
\* or is past its TTL, the query is sent and reads the table.  invalidated
\* (history) tells whether invalidateUserDomainsCache ran for the owner
\* since; it goes to the cache entry as stale
validateUserDomainQuery(userId, timeTier, customDomain, userTier, maxIds, maxQueries) ==
  /\ nextId + Cardinality(queries) <= maxIds
  /\ Cardinality(queries) < maxQueries
  /\ customDomain # NoDomain
  /\ userTier \in Privileged \/ checkDailyLimit(userId, timeTier)
  /\ ~(userId \in DOMAIN userDomainsCache /\ userDomainsCache[userId].expiresAt > now)
  /\ queries' = queries \cup {[userId |-> userId, timeTier |-> timeTier,
                                customDomain |-> customDomain, userTier |-> userTier,
                                domains |-> VerifiedDomains(userId), invalidated |-> FALSE]}
  /\ last' = [name |-> "validateUserDomainQuery", args |-> <<userId, customDomain>>,
              ret |-> RetNone, pre |-> NoEntity]
  /\ UNCHANGED <<now, storeVars, usageCounters, timers, nextId, cacheVars, dbVars,
                 granted, usageVars, gmailVars, procVars>>

\* the query returns (or fails), validateUserDomain writes the owner's list
\* to the cache and createApiEmail runs to its end
validateUserDomainResult(q, rnd, dbOk1, dbOk2) ==
  /\ q \in queries
  /\ queries' = queries \ {q}
  /\ LET fresh == [domains |-> q.domains, expiresAt |-> now + UserDomainsTTL,
                       stale |-> q.invalidated]
         v == IF dbOk1
                THEN [val |-> IF q.customDomain \in q.domains THEN q.customDomain ELSE NoDomain,
                      udc |-> MapSet(userDomainsCache, q.userId, fresh),
                      list |-> ListOf(fresh, FALSE)]
                ELSE [val |-> NoDomain, udc |-> userDomainsCache, list |-> NoList]
     IN CreateResolved(q.userId, q.timeTier, q.customDomain, q.userTier, rnd,
                       ResolveValidated(q.customDomain, v, dbOk2))

(***************************************************************************)
(* Helpers over sets of ids.                                               *)
(***************************************************************************)
RECURSIVE RemoveAll(_, _)
RemoveAll(st, ids) ==
  IF ids = {} THEN st
  ELSE LET i == CHOOSE x \in ids : TRUE
       IN RemoveAll(RemoveEmail(st, i), ids \ {i})

\* Array.prototype.sort by createdAt, newest first; the sort is stable and the
\* Set of ids iterates in insertion order, which is the order of the ids
\* the comparator with its operands swapped: oldest first
Older(a, b) == a.createdAt < b.createdAt \/ (a.createdAt = b.createdAt /\ a.id < b.id)

Newer(a, b) == a.createdAt > b.createdAt \/ (a.createdAt = b.createdAt /\ a.id < b.id)

RECURSIVE SortNewestFirst(_)
SortNewestFirst(es) ==
  IF es = {} THEN <<>>
  ELSE LET first == CHOOSE e \in es : \A o \in es \ {e} : Newer(e, o)
       IN <<first>> \o SortNewestFirst(es \ {first})

\* the comparison with the clock off by one: expired only after expiresAt
ExpiredLate(email) == email.expiresAt < now

\* the comparison ten minutes ahead of the clock
ExpiredEarly(email) == email.expiresAt <= now + TenMin

Expired(email) == email.expiresAt <= now

(***************************************************************************)
(* getUserApiEmails                                                        *)
(***************************************************************************)
getUserApiEmails(userId) ==
  LET emailIds == IF userId \in DOMAIN userApiEmailIndex THEN userApiEmailIndex[userId] ELSE {}
      present == emailIds \cap DOMAIN apiEmailStore
      live == {i \in present : ~Expired(apiEmailStore[i])}
      dead == present \ live
      gone == [store |-> [x \in DOMAIN apiEmailStore \ dead |-> apiEmailStore[x]],
               index |-> IndexDelete(userApiEmailIndex, userId, dead),
               addr |-> [a \in DOMAIN emailToApiUserMap \ {apiEmailStore[i].email : i \in dead}
                           |-> emailToApiUserMap[a]]]
  IN
  /\ SetStore(IF dead = {} THEN StoreState ELSE gone)
  /\ last' = [name |-> "list", args |-> [userId |-> userId],
              ret |-> RetList(SortNewestFirst({apiEmailStore[i] : i \in live})),
              pre |-> NoEntity]
  /\ UNCHANGED <<now, usageCounters, timers, nextId, cacheVars, dbVars, granted, queries, usageVars, gmailVars, procVars>>

PreOf(emailId) == IF emailId \in DOMAIN apiEmailStore THEN apiEmailStore[emailId] ELSE NoEntity

(***************************************************************************)
(* getApiEmail                                                             *)
(***************************************************************************)
getApiEmail(emailId, userId) ==
  LET args == [emailId |-> emailId, userId |-> userId]
      email == apiEmailStore[emailId]
  IN
  /\ IF emailId \notin DOMAIN apiEmailStore \/ email.userId # userId
       THEN /\ last' = [name |-> "get", args |-> args, ret |-> RetNull,
                        pre |-> PreOf(emailId)]
            /\ UNCHANGED storeVars
     ELSE IF Expired(email)
       THEN /\ SetStore([store |-> MapDelete(apiEmailStore, emailId),
                         index |-> IndexDelete(userApiEmailIndex, userId, {emailId}),
                         addr |-> MapDelete(emailToApiUserMap, email.email)])
            /\ last' = [name |-> "get", args |-> args, ret |-> RetNull,
                        pre |-> email]
     ELSE /\ last' = [name |-> "get", args |-> args, ret |-> RetEntity(email),
                      pre |-> email]
          /\ UNCHANGED storeVars
  /\ UNCHANGED <<now, usageCounters, timers, nextId, cacheVars, dbVars, granted, queries, usageVars, gmailVars, procVars>>

(***************************************************************************)
(* deleteApiEmail                                                          *)
(***************************************************************************)
\* the owner test left out: any caller deletes the entity
deleteApiEmailAnyOwner(emailId, userId) ==
  LET args == [emailId |-> emailId, userId |-> userId]
      email == apiEmailStore[emailId]
  IN
  /\ IF emailId \notin DOMAIN apiEmailStore
       THEN /\ last' = [name |-> "delete", args |-> args, ret |-> RetBool(FALSE),
                        pre |-> PreOf(emailId)]
            /\ UNCHANGED storeVars
       ELSE /\ SetStore([store |-> MapDelete(apiEmailStore, emailId),
                         index |-> IndexDelete(userApiEmailIndex, userId, {emailId}),
                         addr |-> MapDelete(emailToApiUserMap, email.email)])
            /\ last' = [name |-> "delete", args |-> args, ret |-> RetBool(TRUE),
                        pre |-> email]
  /\ UNCHANGED <<now, usageCounters, timers, nextId, cacheVars, dbVars, granted, queries, usageVars, gmailVars, procVars>>

\* the entity left in the table: only the indexes are cleared
deleteApiEmailKeepsEntity(emailId, userId) ==
  LET args == [emailId |-> emailId, userId |-> userId]
      email == apiEmailStore[emailId]
  IN
  /\ IF emailId \notin DOMAIN apiEmailStore \/ email.userId # userId
       THEN /\ last' = [name |-> "delete", args |-> args, ret |-> RetBool(FALSE),
                        pre |-> PreOf(emailId)]
            /\ UNCHANGED storeVars
       ELSE /\ SetStore([store |-> apiEmailStore,
                         index |-> IndexDelete(userApiEmailIndex, userId, {emailId}),
                         addr |-> MapDelete(emailToApiUserMap, email.email)])
            /\ last' = [name |-> "delete", args |-> args, ret |-> RetBool(TRUE),
                        pre |-> email]
  /\ UNCHANGED <<now, usageCounters, timers, nextId, cacheVars, dbVars, granted, queries, usageVars, gmailVars, procVars>>

deleteApiEmail(emailId, userId) ==
  LET args == [emailId |-> emailId, userId |-> userId]
      email == apiEmailStore[emailId]
  IN
  /\ IF emailId \notin DOMAIN apiEmailStore \/ email.userId # userId
       THEN /\ last' = [name |-> "delete", args |-> args, ret |-> RetBool(FALSE),
                        pre |-> PreOf(emailId)]
            /\ UNCHANGED storeVars
       ELSE /\ SetStore([store |-> MapDelete(apiEmailStore, emailId),
                         index |-> IndexDelete(userApiEmailIndex, userId, {emailId}),
                         addr |-> MapDelete(emailToApiUserMap, email.email)])
            /\ last' = [name |-> "delete", args |-> args, ret |-> RetBool(TRUE),
                        pre |-> email]
  /\ UNCHANGED <<now, usageCounters, timers, nextId, cacheVars, dbVars, granted, queries, usageVars, gmailVars, procVars>>

(***************************************************************************)
(* addApiEmailMessage.  A message is named by its arrival number at the    *)
(* entity; maxMsgs bounds the arrivals.                                    *)
(***************************************************************************)
\* push in place of unshift: the new message goes to the end
UnshiftAtEnd(messages, m) == Append(messages, m)

Unshift(messages, m) == <<m>> \o messages

\* slice(1) in place of slice(0, 50): the newest message is the one dropped
TruncateDropsNewest(messages) ==
  IF Len(messages) > MaxMessages THEN SubSeq(messages, 2, Len(messages)) ELSE messages

Truncate(messages) ==
  IF Len(messages) > MaxMessages THEN SubSeq(messages, 1, MaxMessages) ELSE messages

NextArrival(emailId) ==
  IF emailId \in DOMAIN apiEmailStore /\ apiEmailStore[emailId].messages # <<>>
    THEN Head(apiEmailStore[emailId].messages) + 1
    ELSE 1

addApiEmailMessage(emailId, messageData, maxMsgs) ==
  LET args == [emailId |-> emailId, messageData |-> messageData]
      email == apiEmailStore[emailId]
  IN
  /\ messageData <= maxMsgs
  /\ IF emailId \notin DOMAIN apiEmailStore \/ Expired(email)
       THEN /\ last' = [name |-> "append", args |-> args, ret |-> RetBool(FALSE),
                        pre |-> PreOf(emailId)]
            /\ UNCHANGED storeVars
       ELSE /\ apiEmailStore' = [apiEmailStore EXCEPT
                 ![emailId].messages = Truncate(Unshift(@, messageData))]
            /\ last' = [name |-> "append", args |-> args, ret |-> RetBool(TRUE),
                        pre |-> email]
            /\ UNCHANGED <<userApiEmailIndex, emailToApiUserMap>>
  /\ UNCHANGED <<now, usageCounters, timers, nextId, cacheVars, dbVars, granted, queries, usageVars, gmailVars, procVars>>

(***************************************************************************)
(* The setTimeout callback armed by scheduleEmailCleanup.                  *)
(***************************************************************************)
scheduleEmailCleanup(t) ==
  /\ t \in timers
  /\ now >= t.fireAt
  /\ timers' = timers \ {t}
  /\ SetStore(IF t.emailId \in DOMAIN apiEmailStore
                THEN RemoveEmail(StoreState, t.emailId)
                ELSE StoreState)
  /\ last' = [name |-> "timer", args |-> [emailId |-> t.emailId], ret |-> RetNone,
              pre |-> PreOf(t.emailId)]
  /\ UNCHANGED <<now, usageCounters, nextId, cacheVars, dbVars, granted, queries, usageVars, gmailVars, procVars>>

(***************************************************************************)
(* cleanupExpiredData, the periodic sweep.                                 *)
(***************************************************************************)
\* date = key.substring(key.lastIndexOf('-') + 1) is the day of the month, two
\* digits; date < cutoffDate compares it as a string with 'YYYY-MM-DD', a year
\* of this century: it is smaller exactly for the days '01' to '20'
CounterIsOld(key) == DayOfMonth(key[2]) <= 20

cleanupExpiredData ==
  LET dead == {i \in DOMAIN apiEmailStore : Expired(apiEmailStore[i])}
  IN
  /\ SetStore(RemoveAll(StoreState, dead))
  /\ usageCounters' = [k \in {x \in DOMAIN usageCounters : ~CounterIsOld(x)} |-> usageCounters[k]]
  /\ userDomainsCache' = [u \in {x \in DOMAIN userDomainsCache :
                                   ~(userDomainsCache[x].expiresAt <= now)}
                            |-> userDomainsCache[u]]
  /\ last' = [name |-> "sweep", args |-> <<>>, ret |-> RetNone, pre |-> NoEntity]
  /\ UNCHANGED <<now, timers, nextId, domainsCache, dbVars, granted, queries, usageVars, gmailVars, procVars>>

(***************************************************************************)
(* The custom-domain usage cache (customDomainRateLimit.js, 239-641).      *)
(* The operators take and return the cache as a record: the two Maps, the  *)
(* insertion order of pendingOperations, and the runs of the flush, whose  *)
(* iterators a deletion moves.  toDateString() is the local date; the      *)
(* process runs in UTC.                                                    *)
(***************************************************************************)
Max(a, b) == IF a >= b THEN a ELSE b

UsageState == [users |-> users, pending |-> pendingOperations,
               order |-> pendingOrder, flush |-> flush]

SetUsage(cs) ==
  /\ users' = cs.users
  /\ pendingOperations' = cs.pending
  /\ pendingOrder' = cs.order
  /\ flush' = cs.flush

\* pendingOperations.set(userId, op): a new key goes to the end of the order
PendingSet(cs, userId, op) ==
  [cs EXCEPT !.pending = MapSet(@, userId, op),
             !.order = IF userId \in DOMAIN cs.pending THEN @ ELSE Append(@, userId)]

\* cleanup(): entries whose lastReset is older than 25 hours leave both Maps
cleanup(cs) ==
  LET old == {u \in DOMAIN cs.users : cs.users[u].lastReset < now - CleanupAge}
      Kept(u) == u \notin old
      Passed(f) == Cardinality({i \in 1..cs.flush[f].pos : cs.order[i] \in old})
  IN [users |-> [u \in DOMAIN cs.users \ old |-> cs.users[u]],
      pending |-> [u \in DOMAIN cs.pending \ old |-> cs.pending[u]],
      order |-> SelectSeq(cs.order, Kept),
      flush |-> [f \in Flushers |-> [cs.flush[f] EXCEPT !.pos = @ - Passed(f)]]]

resetDailyIfNeeded(cs, userId) ==
  LET has == userId \in DOMAIN cs.users
      data == cs.users[userId]
      newData == [dailyCount |-> 0,
                  totalCount |-> IF has THEN data.totalCount ELSE 0,
                  lastReset |-> now, dirty |-> TRUE]
      hasOp == userId \in DOMAIN cs.pending
      existing == cs.pending[userId]
      op == [dailyDelta |-> IF has THEN 0 - data.dailyCount ELSE 0,
             totalDelta |-> IF hasOp THEN existing.totalDelta ELSE 0,
             domainId |-> IF hasOp THEN existing.domainId ELSE "",
             resetDaily |-> TRUE]
  IN IF ~has \/ DayOf(data.lastReset) # DayOf(now)
       THEN PendingSet([cs EXCEPT !.users = MapSet(@, userId, newData)], userId, op)
       ELSE cs

addPendingOperation(cs, userId, dailyDelta, totalDelta, domainId) ==
  LET existing == IF userId \in DOMAIN cs.pending THEN cs.pending[userId] ELSE NoOperation
  IN PendingSet(cs, userId,
       [dailyDelta |-> existing.dailyDelta + dailyDelta,
        totalDelta |-> existing.totalDelta + totalDelta,
        domainId |-> IF domainId # "" THEN domainId ELSE existing.domainId,
        resetDaily |-> existing.resetDaily])

\* doCleanup is Math.random() < 0.1; resetDailyIfNeeded always returns an
\* entry, so the load from the database is never reached
getUserUsage(cs, userId, doCleanup) ==
  resetDailyIfNeeded(IF doCleanup THEN cleanup(cs) ELSE cs, userId)

incrementUserUsage(cs, userId, domainId, doCleanup) ==
  LET c1 == getUserUsage(cs, userId, doCleanup)
      usage == c1.users[userId]
      c2 == [c1 EXCEPT !.users[userId] =
                [usage EXCEPT !.dailyCount = @ + 1, !.totalCount = @ + 1, !.dirty = TRUE]]
  IN addPendingOperation(c2, userId, 1, 1, domainId)

\* only the total goes down, and only when it is positive
decrementUserUsage(cs, userId, domainId, doCleanup) ==
  LET c1 == getUserUsage(cs, userId, doCleanup)
      usage == c1.users[userId]
      c2 == [c1 EXCEPT !.users[userId] =
                [usage EXCEPT !.totalCount = @ - 1, !.dirty = TRUE]]
  IN IF usage.totalCount > 0
       THEN addPendingOperation(c2, userId, 0, -1, domainId)
       ELSE c1

Accessed(h) ==
  IF h.phase = "incremented" /\ DayOf(now) > h.day
    THEN [h EXCEPT !.phase = "rolled", !.day = DayOf(now)]
    ELSE [h EXCEPT !.day = DayOf(now)]

Incremented(h) ==
  IF h.phase \in {"none", "incremented"} /\ (h.phase = "none" \/ DayOf(now) = h.day)
    THEN [n |-> h.n + 1, day |-> DayOf(now), phase |-> "incremented"]
    ELSE [n |-> h.n + 1, day |-> DayOf(now), phase |-> "off"]

FlushStarted(h) ==
  IF h.phase = "rolled" THEN [h EXCEPT !.phase = "flushing"]
  ELSE IF h.phase = "none" THEN h
  ELSE [h EXCEPT !.phase = "off"]

FlushEnded(h, committed) ==
  IF h.phase = "flushing"
    THEN [h EXCEPT !.phase = IF committed THEN "done" ELSE "rolled"]
  ELSE IF h.phase = "none" THEN h
  ELSE [h EXCEPT !.phase = "off"]

Arrived(fl, userId) ==
  [f \in Flushers |->
     IF fl[f].pc = "idle" THEN fl[f] ELSE [fl[f] EXCEPT !.arrived = @ \cup {userId}]]

IssuedTotal == issued["u1"].n + issued["u2"].n

\* incrementCustomDomainUsage(domainId): the owner of the verified row is
\* looked up, then the cache is updated
incrementCustomDomainUsage(domainId, doCleanup, maxIncs) ==
  /\ IssuedTotal < maxIncs
  /\ domainId \in DOMAIN dbCustomDomains
  /\ dbCustomDomains[domainId].status = "verified"
  /\ LET userId == dbCustomDomains[domainId].user_id
         cs == incrementUserUsage(UsageState, userId, domainId, doCleanup)
     IN /\ SetUsage([cs EXCEPT !.flush = Arrived(@, userId)])
        /\ issued' = [issued EXCEPT ![userId] = Incremented(@)]
        /\ last' = [name |-> "incrementCustomDomainUsage", args |-> <<domainId>>,
                    ret |-> [kind |-> "usage", val |-> cs.users[userId]], pre |-> NoEntity]
  /\ UNCHANGED <<now, storeVars, usageCounters, timers, nextId, cacheVars, dbVars, granted, queries, gmailVars, procVars>>

\* a decrement ends the history of the owner's increments
Decremented(h) == [h EXCEPT !.day = DayOf(now), !.phase = "off"]

\* decrementCustomDomainUsage(customDomainId, userId): null when the query
\* throws or finds no verified row of the user with this id
decrementCustomDomainUsage(customDomainId, userId, doCleanup, dbOk) ==
  LET found == /\ dbOk
               /\ customDomainId \in DOMAIN dbCustomDomains
               /\ dbCustomDomains[customDomainId].user_id = userId
               /\ dbCustomDomains[customDomainId].status = "verified"
      cs == decrementUserUsage(UsageState, userId, customDomainId, doCleanup)
  IN /\ IF found
          THEN /\ SetUsage([cs EXCEPT !.flush = Arrived(@, userId)])
               /\ issued' = [issued EXCEPT ![userId] = Decremented(@)]
               /\ last' = [name |-> "decrementCustomDomainUsage",
                           args |-> <<customDomainId, userId>>,
                           ret |-> [kind |-> "usage", val |-> cs.users[userId]],
                           pre |-> NoEntity]
          ELSE /\ last' = [name |-> "decrementCustomDomainUsage",
                           args |-> <<customDomainId, userId>>,
                           ret |-> RetNull, pre |-> NoEntity]
               /\ UNCHANGED usageVars
     /\ UNCHANGED <<now, storeVars, usageCounters, timers, nextId, cacheVars, dbVars, granted,
                    queries, gmailVars, procVars>>

checkCustomDomainLimits(userId, doCleanup) ==
  /\ LET cs == getUserUsage(UsageState, userId, doCleanup)
         usage == cs.users[userId]
         dailyLimitReached == usage.dailyCount >= DAILY_LIMIT
         totalLimitReached == usage.totalCount >= TOTAL_LIMIT
     IN /\ SetUsage(cs)
        /\ last' = [name |-> "checkCustomDomainLimits", args |-> <<userId>>,
                    ret |-> [kind |-> "limits",
                             canCreate |-> ~dailyLimitReached /\ ~totalLimitReached,
                             dailyCount |-> usage.dailyCount,
                             totalCount |-> usage.totalCount],
                    pre |-> NoEntity]
  /\ issued' = [issued EXCEPT ![userId] = Accessed(@)]
  /\ UNCHANGED <<now, storeVars, usageCounters, timers, nextId, cacheVars, dbVars, granted, queries, gmailVars, procVars>>

\* the hourly setInterval that runs cleanup()
CleanupInterval ==
  /\ SetUsage(cleanup(UsageState))
  /\ last' = [name |-> "cleanup", args |-> <<>>, ret |-> RetNone, pre |-> NoEntity]
  /\ UNCHANGED <<now, storeVars, usageCounters, timers, nextId, cacheVars, dbVars,
                 granted, queries, issued, gmailVars, procVars>>

(***************************************************************************)
(* flushPendingOperations, one step per suspension.  The statements of     *)
(* the transaction are kept in writes and reach the table at the commit.   *)
(***************************************************************************)
\* the iterator's next(): the entry in hand is the object the Map held then
Advance(fl, cs) ==
  IF fl.pos < Len(cs.order)
    THEN LET userId == cs.order[fl.pos + 1]
         IN [fl EXCEPT !.pc = "entry", !.pos = @ + 1, !.cur = userId,
                       !.op = cs.pending[userId],
                       !.seen = MapSet(@, userId, cs.pending[userId])]
    ELSE [fl EXCEPT !.pc = "commit", !.cur = "", !.op = NoOperation]

\* the run starts: the queue is not empty, the connection is asked for
FlushStart(f) ==
  /\ flush[f].pc = "idle"
  /\ DOMAIN pendingOperations # {}
  /\ flush' = [flush EXCEPT ![f] = [Idle EXCEPT !.pc = "begin"]]
  /\ issued' = [u \in Owners |-> FlushStarted(issued[u])]
  /\ last' = [name |-> "flushStart", args |-> <<f>>, ret |-> RetNone, pre |-> NoEntity]
  /\ UNCHANGED <<now, storeVars, usageCounters, timers, nextId, cacheVars, dbVars,
                 granted, queries, users, pendingOperations, pendingOrder, gmailVars, procVars>>

FlushResult(fl, committed) ==
  [kind |-> "flush", committed |-> committed, seen |-> fl.seen, ok |-> fl.ok,
   arrived |-> fl.arrived]

\* the end of a run that did not commit: nothing reaches the table, the
\* queue is left as it is
FlushFailed(f) ==
  /\ flush' = [flush EXCEPT ![f] = Idle]
  /\ issued' = [u \in Owners |-> FlushEnded(issued[u], FALSE)]
  /\ last' = [name |-> "flushPendingOperations", args |-> <<f>>,
              ret |-> FlushResult(flush[f], FALSE), pre |-> pendingOperations]
  /\ UNCHANGED <<now, storeVars, usageCounters, timers, nextId, cacheVars, dbVars,
                 granted, queries, users, pendingOperations, pendingOrder, gmailVars, procVars>>

\* getConnection and beginTransaction return
FlushBegin(f, dbOk) ==
  /\ flush[f].pc = "begin"
  /\ IF dbOk
       THEN /\ flush' = [flush EXCEPT ![f] = Advance(@, UsageState)]
            /\ last' = [name |-> "flushBegin", args |-> <<f>>, ret |-> RetNone, pre |-> NoEntity]
            /\ UNCHANGED <<now, storeVars, usageCounters, timers, nextId, cacheVars, dbVars,
                           granted, queries, users, pendingOperations, pendingOrder, issued, gmailVars, procVars>>
       ELSE FlushFailed(f)

NoWrite == [kind |-> "none", ids |-> {}, id |-> "", daily |-> 0, total |-> 0]

\* the statements of one entry; outcome says which query fails, if any
EntryWrites(userId, op, outcome) ==
  LET domains == VerifiedRows(userId)
      first == CHOOSE d \in domains : TRUE
      targetDomainId == IF op.domainId # "" THEN op.domainId ELSE first
      reset == IF op.resetDaily
                 THEN <<[NoWrite EXCEPT !.kind = "reset", !.ids = domains]>> ELSE <<>>
      delta == IF (op.dailyDelta # 0 \/ op.totalDelta # 0) /\ outcome # "updateFails"
                 THEN <<[NoWrite EXCEPT !.kind = "delta", !.id = targetDomainId,
                                        !.daily = op.dailyDelta, !.total = op.totalDelta]>>
                 ELSE <<>>
  IN IF outcome = "selectFails" \/ domains = {} THEN <<>> ELSE reset \o delta

\* whether every statement of the entry ran
EntryDone(userId, op, outcome) ==
  /\ VerifiedRows(userId) # {}
  /\ outcome # "selectFails"
  /\ outcome = "updateFails" => (op.dailyDelta = 0 /\ op.totalDelta = 0)

\* the queries of the entry in hand return; an error is logged and the loop
\* goes on
FlushEntry(f, outcome) ==
  /\ flush[f].pc = "entry"
  /\ LET fl == flush[f]
         done == [fl EXCEPT !.writes = @ \o EntryWrites(fl.cur, fl.op, outcome),
                            !.ok = IF EntryDone(fl.cur, fl.op, outcome)
                                     THEN @ \cup {fl.cur} ELSE @]
     IN flush' = [flush EXCEPT ![f] = Advance(done, UsageState)]
  /\ last' = [name |-> "flushEntry", args |-> <<f>>, ret |-> RetNone, pre |-> NoEntity]
  /\ UNCHANGED <<now, storeVars, usageCounters, timers, nextId, cacheVars, dbVars,
                 granted, queries, users, pendingOperations, pendingOrder, issued, gmailVars, procVars>>

ApplyWrite(table, w) ==
  [d \in DOMAIN table |->
     IF w.kind = "reset" /\ d \in w.ids
       THEN [table[d] EXCEPT !.daily_count = 0]
     ELSE IF w.kind = "delta" /\ d = w.id
       THEN [table[d] EXCEPT !.daily_count = Max(@ + w.daily, 0),
                             !.total_count = Max(@ + w.total, 0)]
     ELSE table[d]]

RECURSIVE ApplyWrites(_, _)
ApplyWrites(table, ws) ==
  IF ws = <<>> THEN table ELSE ApplyWrites(ApplyWrite(table, Head(ws)), Tail(ws))

\* connection.commit() returns: on success the whole queue is cleared
FlushCommit(f, dbOk) ==
  /\ flush[f].pc = "commit"
  /\ IF dbOk
       THEN /\ dbCustomDomains' = ApplyWrites(dbCustomDomains, flush[f].writes)
            /\ pendingOperations' = EmptyMap
            /\ pendingOrder' = <<>>
            /\ flush' = [g \in Flushers |->
                           IF g = f THEN Idle ELSE [flush[g] EXCEPT !.pos = 0]]
            /\ issued' = [u \in Owners |-> FlushEnded(issued[u], TRUE)]
            /\ last' = [name |-> "flushPendingOperations", args |-> <<f>>,
                        ret |-> FlushResult(flush[f], TRUE), pre |-> pendingOperations]
            /\ UNCHANGED <<now, storeVars, usageCounters, timers, nextId, cacheVars,
                           dbDomains, granted, queries, users, gmailVars, procVars>>
       ELSE FlushFailed(f)

\* POST /custom-domains/:id/verify: the DNS check decides the row's status
\* invalidateUserDomainsCache(userId)
invalidateUserDomainsCache(udc, userId) == MapDelete(udc, userId)

\* the queries in flight for the owner were sent before the invalidation
Invalidated(qs, userId) ==
  {IF q.userId = userId THEN [q EXCEPT !.invalidated = TRUE] ELSE q : q \in qs}

verifyDomain(domainId, isVerified) ==
  /\ domainId \in DOMAIN dbCustomDomains
  /\ dbCustomDomains' = [dbCustomDomains EXCEPT
                           ![domainId].status = IF isVerified THEN "verified" ELSE "failed"]
  /\ userDomainsCache' = IF isVerified
                           THEN invalidateUserDomainsCache(userDomainsCache,
                                                           dbCustomDomains[domainId].user_id)
                           ELSE userDomainsCache
  /\ queries' = IF isVerified
                  THEN Invalidated(queries, dbCustomDomains[domainId].user_id)
                  ELSE queries
  /\ last' = [name |-> "verifyDomain", args |-> <<domainId, isVerified>>,
              ret |-> RetBool(isVerified), pre |-> NoEntity]
  /\ UNCHANGED <<now, storeVars, usageCounters, timers, nextId, domainsCache, dbDomains,
                 granted, usageVars, gmailVars, procVars>>

(***************************************************************************)
(* The clock.                                                              *)
(***************************************************************************)
Tick(d, maxTicks) ==
  /\ now + d <= StartTime + maxTicks
  /\ now' = now + d
  /\ last' = [name |-> "tick", args |-> <<>>, ret |-> RetNone, pre |-> NoEntity]
  /\ UNCHANGED <<storeVars, usageCounters, timers, nextId, cacheVars, dbVars, granted, queries, usageVars, gmailVars, procVars>>

(***************************************************************************)
(* The store specification: every operation of the entity store, with the  *)
(* timers and the sweep, on a clock that passes the short tiers' expiry.   *)
(***************************************************************************)
\* the ids a caller can name: those issued so far, and one that never was
UnknownId == 0
Ids == 0..(nextId - 1)

StoreCreate ==
  \E userId \in Owners, timeTier \in {"10min"}, rnd \in LocalParts :
    createApiEmail(userId, timeTier, NoDomain, QuotaLevel(userId), rnd, TRUE, TRUE, MaxIds)

StoreList == \E userId \in Owners : getUserApiEmails(userId)

StoreGet == \E emailId \in Ids, userId \in Owners : getApiEmail(emailId, userId)

StoreDelete == \E emailId \in Ids, userId \in Owners : deleteApiEmail(emailId, userId)

StoreAppend == \E emailId \in Ids : addApiEmailMessage(emailId, NextArrival(emailId), MaxMsgs)

StoreTimer == \E t \in timers : scheduleEmailCleanup(t)

StoreTick == Tick(TenMin, MaxTicks * TenMin)

NextStore ==
  \/ StoreCreate
  \/ StoreList
  \/ StoreGet
  \/ StoreDelete
  \/ StoreAppend
  \/ StoreTimer
  \/ cleanupExpiredData
  \/ StoreTick

SpecStore == Init /\ [][NextStore]_vars

(***************************************************************************)
(* The removal specification: the store specification without inbound      *)
(* messages, for the claims about the ways an entity leaves the store.     *)
(***************************************************************************)
NextRemoval ==
  \/ StoreCreate
  \/ StoreList
  \/ StoreGet
  \/ StoreDelete
  \/ StoreTimer
  \/ cleanupExpiredData
  \/ StoreTick

SpecRemoval == Init /\ [][NextRemoval]_vars

(***************************************************************************)
(* Claims about the entity store: C2 and C7 are checked under SpecStore,   *)
(* C1, C9 and C10 under SpecRemoval.                                       *)
(***************************************************************************)
IsCall(name) == last.name = name
Present(emailId) == emailId \in DOMAIN apiEmailStore
TimerArmed(emailId) == \E t \in timers : t.emailId = emailId

\* C1: getApiEmail(id, owner) returns null whenever the entity's expiresAt is
\* not after the time of the call, whether or not the timer or the sweep has
\* removed the entity (an entity that is absent, or of another owner, gives
\* null as well).
C1_GetNullOnceExpired ==
  IsCall("get") =>
    /\ last.pre = NoEntity => last.ret = RetNull
    /\ (last.pre # NoEntity /\ last.pre.expiresAt <= now) => last.ret = RetNull

\* reached: a get by the owner finds the expired entity still in the table, its
\* timer not yet fired, and returns null
C1_Witness ==
  /\ IsCall("get")
  /\ last.pre # NoEntity
  /\ last.pre.userId = last.args.userId
  /\ last.pre.expiresAt <= now
  /\ [emailId |-> last.args.emailId, fireAt |-> last.pre.expiresAt] \in timers
  /\ last.ret = RetNull

\* C2: the address of a created entity is not a key of the address index
\* before the call, so no two entities of the table that are not expired share
\* an address.
C2_UniqueAddress ==
  \A i \in DOMAIN apiEmailStore : \A j \in DOMAIN apiEmailStore :
    (i # j /\ ~Expired(apiEmailStore[i]) /\ ~Expired(apiEmailStore[j]))
      => apiEmailStore[i].email # apiEmailStore[j].email

\* C7: every id of the owner index is an entity of the table owned by that
\* owner, and every entry of the address index names an entity of the table
\* with that address and that owner.
C7_IndexesNameEntities ==
  /\ \A u \in DOMAIN userApiEmailIndex : \A i \in userApiEmailIndex[u] :
       Present(i) /\ apiEmailStore[i].userId = u
  /\ \A a \in DOMAIN emailToApiUserMap :
       LET e == emailToApiUserMap[a]
       IN Present(e.emailId)
          /\ apiEmailStore[e.emailId].email = a
          /\ apiEmailStore[e.emailId].userId = e.userId

\* reached: an entity has just been removed while another one stays indexed
C7_Witness ==
  /\ last.name \in {"delete", "get", "timer"}
  /\ last.pre # NoEntity
  /\ ~Present(last.pre.id)
  /\ \E u \in DOMAIN userApiEmailIndex : userApiEmailIndex[u] # {}
  /\ DOMAIN emailToApiUserMap # {}

\* C9: deleteApiEmail(id, owner) on an entity of the table owned by the caller
\* returns true and removes it from the table and both indexes; a second
\* deleteApiEmail(id, owner) right after it returns false and changes nothing.
C9_DeleteTwice ==
  [][ /\ (last'.name = "delete" /\ Present(last'.args.emailId)
            /\ apiEmailStore[last'.args.emailId].userId = last'.args.userId)
        => /\ last'.ret = RetBool(TRUE)
           /\ last'.args.emailId \notin DOMAIN apiEmailStore'
           /\ \A u \in DOMAIN userApiEmailIndex' :
                last'.args.emailId \notin userApiEmailIndex'[u]
           /\ \A a \in DOMAIN emailToApiUserMap' :
                emailToApiUserMap'[a].emailId # last'.args.emailId
      /\ (last.name = "delete" /\ last.ret = RetBool(TRUE)
            /\ last'.name = "delete" /\ last'.args = last.args)
        => /\ last'.ret = RetBool(FALSE)
           /\ UNCHANGED <<storeVars, usageCounters, timers, nextId>>
    ]_vars

\* reached: a delete of an issued id returns false because the entity, which
\* has not expired (its timer is armed and not due), was deleted before
C9_Witness ==
  /\ IsCall("delete")
  /\ last.ret = RetBool(FALSE)
  /\ last.pre = NoEntity
  /\ \E t \in timers : t.emailId = last.args.emailId /\ t.fireAt > now

\* the entities of the table other than those in ids, and their index entries,
\* are the same before and after the step
OthersUnchanged(ids) ==
  /\ DOMAIN apiEmailStore \ ids = DOMAIN apiEmailStore' \ ids
  /\ \A i \in DOMAIN apiEmailStore \ ids : apiEmailStore'[i] = apiEmailStore[i]
  /\ DOMAIN userApiEmailIndex' = DOMAIN userApiEmailIndex
  /\ \A u \in DOMAIN userApiEmailIndex :
       userApiEmailIndex'[u] \ ids = userApiEmailIndex[u] \ ids
  /\ \A a \in DOMAIN emailToApiUserMap :
       emailToApiUserMap[a].emailId \notin ids
         => (a \in DOMAIN emailToApiUserMap'
               /\ emailToApiUserMap'[a] = emailToApiUserMap[a])
            \/ \E i \in ids : Present(i) /\ apiEmailStore[i].email = a

\* C10: the timer, the sweep, the lazy expiry of a read and the explicit
\* delete may run in any order on one id: the one that finds the entity
\* removed changes nothing, and the one that removes it leaves every other
\* entity and its index entries as they were.
C10_RemovalPathsCommute ==
  [][ /\ (last'.name \in {"timer", "get", "delete"} /\ ~Present(last'.args.emailId))
        => UNCHANGED storeVars
      /\ (last'.name \in {"timer", "get", "delete"} /\ Present(last'.args.emailId))
        => OthersUnchanged({last'.args.emailId})
      /\ last'.name = "sweep"
        => /\ OthersUnchanged({i \in DOMAIN apiEmailStore : Expired(apiEmailStore[i])})
           /\ (\A i \in DOMAIN apiEmailStore : ~Expired(apiEmailStore[i]))
                => UNCHANGED storeVars
    ]_vars

\* reached: the timer fires for an entity that a read, a delete or the sweep
\* has already removed, while another entity is in the table
C10_Witness ==
  /\ IsCall("timer")
  /\ last.pre = NoEntity
  /\ DOMAIN apiEmailStore # {}
  /\ DOMAIN emailToApiUserMap # {}

(***************************************************************************)
(* The quota specification: creates of a free and of an unlimited owner    *)
(* over the day boundary, with the periodic sweep.                         *)
(***************************************************************************)
QuotaOwners == {"u1", "u3"}

QuotaCreate ==
  \E userId \in QuotaOwners, timeTier \in {"1hour", "1day"} :
    createApiEmail(userId, timeTier, NoDomain, QuotaLevel(userId), "aaaaaaaa", TRUE, TRUE,
                   MaxQuotaIds)

QuotaTick == Tick(OneDay, MaxQuotaDays * OneDay)

NextQuota ==
  \/ QuotaCreate
  \/ cleanupExpiredData
  \/ QuotaTick

SpecQuota == Init /\ [][NextQuota]_vars

QuotaError == "Daily limit exceeded"

\* C3: on one calendar day a non-privileged owner gets at most L creates of a
\* tier with daily limit L, and a create fails with the quota error only when
\* L creates of that owner, tier and day have succeeded before (the count is
\* per owner, tier and day); a privileged owner never gets the quota error.
C3_DailyQuota ==
  /\ \A k \in DOMAIN granted :
       QuotaLevel(k[1]) \notin Privileged => granted[k] <= FREE_LIMITS(k[2])
  /\ (IsCall("create") /\ last.ret.kind = "error" /\ last.ret.val = QuotaError)
       => /\ last.args.userTier \notin Privileged
          /\ GrantedOf(last.args.userId, last.args.timeTier, DayOf(now))
               >= FREE_LIMITS(last.args.timeTier)

(***************************************************************************)
(* The message specification: a long run of inbound messages.              *)
(***************************************************************************)
MsgCreate ==
  \E userId \in Owners :
    createApiEmail(userId, "10min", NoDomain, QuotaLevel(userId), "aaaaaaaa", TRUE, TRUE,
                   MaxMsgIds)

MsgAppend == \E emailId \in Ids : addApiEmailMessage(emailId, NextArrival(emailId), MaxMsgRun)

MsgTick == Tick(TenMin, MaxTicks * TenMin)

NextMsg ==
  \/ MsgCreate
  \/ MsgAppend
  \/ MsgTick

SpecMsg == Init /\ [][NextMsg]_vars

\* C8: a message list holds at most 50 messages, newest first; an append to a
\* list of 50 leaves 50, the new message at the head and the oldest dropped.
C8_BoundedNewestFirst ==
  /\ \A i \in DOMAIN apiEmailStore :
       LET ms == apiEmailStore[i].messages
       IN /\ Len(ms) <= 50
          /\ \A k \in 1..(Len(ms) - 1) : ms[k] > ms[k + 1]
  /\ (IsCall("append") /\ last.ret = RetBool(TRUE))
       => LET ms == apiEmailStore[last.args.emailId].messages
              old == last.pre.messages
          IN /\ Head(ms) = last.args.messageData
             /\ Len(old) < 50 => Tail(ms) = old
             /\ Len(old) = 50 => (Len(ms) = 50 /\ Tail(ms) = SubSeq(old, 1, 49))

\* reached: a message is appended to an entity that holds 50
C8_Witness ==
  /\ IsCall("append")
  /\ last.ret = RetBool(TRUE)
  /\ Len(last.pre.messages) = 50
  /\ Len(apiEmailStore[last.args.emailId].messages) = 50

(***************************************************************************)
(* The usage specification: increments and limit checks of two owners, the *)
(* cache cleanup, one run of the flush at a time with its failures, the    *)
(* verification route, on a clock that steps thirteen hours.               *)
(***************************************************************************)
ThirteenHours == 13 * OneHour
DomainIds == {"d1", "d2"}
Outcomes == {"ok", "selectFails", "updateFails"}

UsageIncrement ==
  \E domainId \in DomainIds, doCleanup \in BOOLEAN :
    incrementCustomDomainUsage(domainId, doCleanup, MaxIncs)

UsageCheck == \E userId \in Owners, doCleanup \in BOOLEAN : checkCustomDomainLimits(userId, doCleanup)

UsageFlushStart == \E f \in IntervalFlushers : FlushStart(f)

UsageFlushBegin == \E f \in IntervalFlushers, dbOk \in BOOLEAN : FlushBegin(f, dbOk)

UsageFlushEntry == \E f \in IntervalFlushers, outcome \in Outcomes : FlushEntry(f, outcome)

UsageFlushCommit == \E f \in IntervalFlushers, dbOk \in BOOLEAN : FlushCommit(f, dbOk)

\* the owner of d1 has the DNS of the domain checked again
UsageVerify == \E isVerified \in BOOLEAN : verifyDomain("d1", isVerified)

UsageTick == Tick(ThirteenHours, MaxUsageTicks * ThirteenHours)

NextUsage ==
  \/ UsageIncrement
  \/ UsageCheck
  \/ CleanupInterval
  \/ UsageFlushStart
  \/ UsageFlushBegin
  \/ UsageFlushEntry
  \/ UsageFlushCommit
  \/ UsageVerify
  \/ UsageTick

SpecUsage == Init /\ [][NextUsage]_vars

(***************************************************************************)
(* Claims about the usage cache and its flush, checked under SpecUsage.    *)
(***************************************************************************)
FlushFinished == IsCall("flushPendingOperations")

\* of the run that just finished: the total delta queued for the owner when
\* the run ended, the part of it the run committed, the part still queued
QueuedTotal(userId) ==
  IF userId \in DOMAIN last.pre THEN last.pre[userId].totalDelta ELSE 0

CommittedTotal(userId) ==
  IF last.ret.committed /\ userId \in last.ret.ok
    THEN last.ret.seen[userId].totalDelta ELSE 0

RemainingTotal(userId) ==
  IF userId \in DOMAIN pendingOperations THEN pendingOperations[userId].totalDelta ELSE 0

\* C4: when increments of an owner arrive while a run of
\* flushPendingOperations is suspended, none is dropped: what was queued
\* for the owner when the run finishes was either committed by the run or
\* is still queued after it.  Runs in which a statement of the owner's
\* entry failed are left to C5.
C4_InFlightIncrementsKept ==
  FlushFinished =>
    \A userId \in last.ret.arrived :
      (userId \in DOMAIN last.ret.seen => userId \in last.ret.ok)
        => QueuedTotal(userId) = CommittedTotal(userId) + RemainingTotal(userId)

\* C5: a run of flushPendingOperations removes an owner's delta from the
\* queue only if it committed that delta: the commit succeeded and every
\* statement of the owner's entry ran on a verified row.
C5_RemovedOnlyIfCommitted ==
  FlushFinished =>
    \A userId \in DOMAIN last.pre :
      (last.pre[userId].totalDelta # 0 /\ userId \notin DOMAIN pendingOperations)
        => (last.ret.committed /\ userId \in last.ret.ok)

\* the lifetime total of an owner in the table
RECURSIVE SumTotal(_, _)
SumTotal(table, ids) ==
  IF ids = {} THEN 0
  ELSE LET d == CHOOSE x \in ids : TRUE
       IN table[d].total_count + SumTotal(table, ids \ {d})

DbTotal(userId) ==
  SumTotal(dbCustomDomains, {d \in DOMAIN dbCustomDomains : dbCustomDomains[d].user_id = userId})

SpecSweep ==
  /\ Init
  /\ [][NextRemoval]_vars
  /\ WF_vars(StoreTimer)
  /\ WF_vars(cleanupExpiredData)
  /\ WF_vars(StoreTick)

Horizon == StartTime + MaxTicks * TenMin

\* the entity is in none of the three maps
Absent(emailId) ==
  /\ ~Present(emailId)
  /\ \A u \in DOMAIN userApiEmailIndex : emailId \notin userApiEmailIndex[u]
  /\ \A a \in DOMAIN emailToApiUserMap : emailToApiUserMap[a].emailId # emailId

\* C11: timers that are due fire and the sweep keeps running: every entity
\* whose expiresAt the clock reaches is eventually absent from the entity
\* table, the owner index and the address index.
C11_EventuallyRemoved ==
  \A emailId \in 1..MaxIds :
    (Present(emailId) /\ apiEmailStore[emailId].expiresAt <= Horizon) ~> Absent(emailId)

\* reached: the sweep has just run past the expiry of an entity whose timer
\* is still armed, and the entity is in none of the maps
C11_Witness ==
  /\ IsCall("sweep")
  /\ \E t \in timers : t.fireAt <= now /\ Absent(t.emailId)

(***************************************************************************)
(* Claims about reads after a create, checked under SpecStore.             *)
(***************************************************************************)
\* the step is a call of deleteApiEmail by the owner that returned true
DeletedByOwner(email) ==
  /\ last'.name = "delete"
  /\ last'.args = [emailId |-> email.id, userId |-> email.userId]
  /\ last'.ret = RetBool(TRUE)

\* the entity is in the table and in its owner's index
Held(st, ix, email) ==
  /\ email.id \in DOMAIN st
  /\ email.userId \in DOMAIN ix
  /\ email.id \in ix[email.userId]

SameButMessages(a, b) == [a EXCEPT !.messages = <<>>] = [b EXCEPT !.messages = <<>>]

Range(seq) == {seq[k] : k \in 1..Len(seq)}

\* C12: the entity a create returns is held by the table and the owner's
\* index; as long as it is not expired it stays held through every step
\* that is not a successful delete by its owner; and a getApiEmail by the
\* owner returns it, a getUserApiEmails of the owner contains it, whoever
\* made the steps in between.
C12_ReadYourWrite ==
  [][/\ (last'.name = "create" /\ last'.ret.kind = "entity")
          => /\ Held(apiEmailStore', userApiEmailIndex', last'.ret.val)
             /\ apiEmailStore'[last'.ret.val.id] = last'.ret.val
     /\ \A i \in DOMAIN apiEmailStore :
          LET email == apiEmailStore[i]
          IN (Held(apiEmailStore, userApiEmailIndex, email) /\ now < email.expiresAt)
               => /\ ~DeletedByOwner(email)
                       => /\ Held(apiEmailStore', userApiEmailIndex', email)
                          /\ SameButMessages(apiEmailStore'[i], email)
                  /\ (last'.name = "get" /\ last'.args = [emailId |-> i, userId |-> email.userId])
                       => last'.ret = RetEntity(email)
                  /\ (last'.name = "list" /\ last'.args = [userId |-> email.userId])
                       => email \in Range(last'.ret.val)
    ]_vars

\* reached: an owner gets its entity back while the other owner's entity,
\* created later, is in the table
C12_Witness ==
  /\ IsCall("get")
  /\ last.ret.kind = "entity"
  /\ \E i \in DOMAIN apiEmailStore :
       /\ apiEmailStore[i].userId # last.args.userId
       /\ i > last.args.emailId

(***************************************************************************)
(* The domain specification: creates with and without a requested domain   *)
(* by both owners, with the storage queries succeeding or failing, a call  *)
(* suspended in validateUserDomain, the verification of the first owner's  *)
(* domain, and a clock that passes both TTLs at each step.                 *)
(***************************************************************************)
RequestedDomains == {NoDomain, "cust.test", "pub.test"}

DomainCreate ==
  \E userId \in Owners, customDomain \in RequestedDomains, dbOk1 \in BOOLEAN, dbOk2 \in BOOLEAN :
    createApiEmail(userId, "10min", customDomain, "free", "aaaaaaaa", dbOk1, dbOk2, MaxDomainIds)

DomainQuery ==
  \E userId \in Owners, customDomain \in RequestedDomains \ {NoDomain} :
    validateUserDomainQuery(userId, "10min", customDomain, "free", MaxDomainIds, MaxQueries)

DomainResult ==
  \E q \in queries, dbOk1 \in BOOLEAN, dbOk2 \in BOOLEAN :
    validateUserDomainResult(q, "aaaaaaaa", dbOk1, dbOk2)

DomainVerify == \E isVerified \in BOOLEAN : verifyDomain("d1", isVerified)

\* thirty-five minutes: past the TTL of the public list and of the owners' lists
PastTTL == DomainsTTL + 1

DomainTick == Tick(PastTTL, MaxDomainTicks * PastTTL)

NextDomain ==
  \/ DomainCreate
  \/ DomainQuery
  \/ DomainResult
  \/ DomainVerify
  \/ DomainTick

SpecDomain == Init /\ [][NextDomain]_vars

\* the last step is a createApiEmail that got past the quota check with a
\* requested domain
RequestedCreate(l) == l.name = "create" /\ l.via \in {"custom", "public"}

\* the owner's list validateUserDomain decided from, cached or just read,
\* holds the domain
OwnerListHas(l, domain) == l.list.known /\ domain \in l.list.domains

\* custom_domains has a row of this owner for the domain
HasRow(userId, domain) ==
  \E d \in DOMAIN dbCustomDomains :
    dbCustomDomains[d].user_id = userId /\ dbCustomDomains[d].domain = domain

Created(l) == l.name = "create" /\ l.ret.kind = "entity"

\* C14: an entity created through the fallback, on a requested domain that
\* is not in the owner's verified list but is a public domain, has
\* isCustomDomain = false.
C14_FallbackIsPublic ==
  (Created(last) /\ last.via = "public" /\ last.list.known
     /\ last.args.customDomain \notin last.list.domains)
    => ~last.ret.val.isCustomDomain

\* C15: when getRandomDomain needs a refresh and the query fails, the
\* domain is one of the cached public list if that list is not empty, and
\* the default domain only if it is empty.
C15_StaleOnRefreshFailure ==
  (Created(last) /\ last.via = "random" /\ last.refresh = "failed")
    => IF domainsCache.domains # {}
         THEN last.ret.val.domain \in domainsCache.domains
         ELSE last.ret.val.domain = DefaultDomain

\* C16: a domain a create takes from a cache is in the list of that cache,
\* and the list was read from storage no longer ago than the TTL of the
\* cache: the public list for a random domain and for the fallback, the
\* owner's list for a verified custom domain.
C16_FromFreshCache ==
  Created(last) =>
    LET domain == last.ret.val.domain
        userId == last.ret.val.userId
    IN /\ (last.via = "public" \/ (last.via = "random" /\ last.refresh # "failed"))
            => /\ domain \in domainsCache.domains
               /\ now - domainsCache.lastUpdate <= DomainsTTL
       /\ last.via = "custom"
            => /\ userId \in DOMAIN userDomainsCache
               /\ domain \in userDomainsCache[userId].domains
               /\ now - (userDomainsCache[userId].expiresAt - UserDomainsTTL) < UserDomainsTTL

\* C17: a validateUserDomain that decides from the owner's cached list
\* decides from a list read from storage after the last
\* invalidateUserDomainsCache of that owner: a list read before the
\* invalidation is not in the cache afterwards and is not served.
C17_ReadAfterInvalidation ==
  (RequestedCreate(last) /\ last.list.hit) => ~last.list.stale

(***************************************************************************)
(* The counter specification: the in-memory counters of the custom-domain  *)
(* usage under increments, decrements, limit checks, the cleanup and a     *)
(* clock that crosses midnight.                                            *)
(***************************************************************************)
CounterDecrement ==
  \E domainId \in DomainIds, userId \in Owners, doCleanup \in BOOLEAN, dbOk \in BOOLEAN :
    decrementCustomDomainUsage(domainId, userId, doCleanup, dbOk)

NextCounter ==
  \/ UsageIncrement
  \/ CounterDecrement
  \/ UsageCheck
  \/ CleanupInterval
  \/ UsageTick

SpecCounter == Init /\ [][NextCounter]_vars

\* the step is a call of the named operation for this owner that reached
\* the cache
StepOf(name, userId) ==
  /\ last'.name = name
  /\ \/ name = "checkCustomDomainLimits" /\ last'.args = <<userId>>
     \/ /\ name = "incrementCustomDomainUsage"
        /\ dbCustomDomains[last'.args[1]].user_id = userId
     \/ /\ name = "decrementCustomDomainUsage"
        /\ last'.args[2] = userId
        /\ last'.ret # RetNull

\* C19: an owner's in-memory counters change only like this: an increment
\* adds one to dailyCount and to totalCount; a decrement takes one from
\* totalCount when it is positive and leaves dailyCount; the first access
\* of a new day sets dailyCount to 0 and leaves totalCount; no other step
\* changes them, and dailyCount never goes down within a calendar day.
C19_CounterChanges ==
  [][\A userId \in DOMAIN users \cap DOMAIN users' :
       LET b == users[userId]
           a == users'[userId]
           accessed == \E name \in {"checkCustomDomainLimits", "incrementCustomDomainUsage",
                                    "decrementCustomDomainUsage"} : StepOf(name, userId)
           rolled == accessed /\ DayOf(b.lastReset) # DayOf(now)
           daily == IF rolled THEN 0 ELSE b.dailyCount
       IN /\ StepOf("incrementCustomDomainUsage", userId)
               => a.dailyCount = daily + 1 /\ a.totalCount = b.totalCount + 1
          /\ StepOf("decrementCustomDomainUsage", userId)
               => /\ a.dailyCount = daily
                  /\ a.totalCount = IF b.totalCount > 0 THEN b.totalCount - 1 ELSE 0
          /\ StepOf("checkCustomDomainLimits", userId)
               => a.dailyCount = daily /\ a.totalCount = b.totalCount
          /\ ~accessed => a.dailyCount = b.dailyCount /\ a.totalCount = b.totalCount
          /\ a.totalCount >= 0
          /\ DayOf(a.lastReset) = DayOf(b.lastReset) => a.dailyCount >= b.dailyCount
    ]_vars

(***************************************************************************)
(* The metered specification: entities on a custom domain and on public    *)
(* domains, the usage of the custom domains counted, and deletes.          *)
(***************************************************************************)
MeteredCreate ==
  \E userId \in Owners, customDomain \in {NoDomain, "cust.test"} :
    createApiEmail(userId, "10min", customDomain, "free", "aaaaaaaa", TRUE, TRUE, MaxMeteredIds)

NextMetered ==
  \/ MeteredCreate
  \/ UsageIncrement
  \/ StoreDelete

SpecMetered == Init /\ [][NextMetered]_vars

\* the step made the changes of decrementUserUsage for the owner
DecrementInvoked(userId) ==
  \E domainId \in DomainIds, doCleanup \in BOOLEAN :
    LET cs == decrementUserUsage(UsageState, userId, domainId, doCleanup)
    IN /\ users' = cs.users
       /\ pendingOperations' = cs.pending
       /\ userId \in DOMAIN users
            => users'[userId].totalCount = Max(users[userId].totalCount - 1, 0)

\* C18: a deleteApiEmail that returns true for an entity with
\* isCustomDomain = true makes the changes of the decrement of its owner's
\* usage (totalCount one lower); for an entity on a public domain it
\* leaves the usage as it is.
C18_DeleteDecrements ==
  [][(last'.name = "delete" /\ last'.ret = RetBool(TRUE))
       => IF last'.pre.isCustomDomain
            THEN DecrementInvoked(last'.pre.userId)
            ELSE UNCHANGED <<users, pendingOperations>>
    ]_vars

(***************************************************************************)
(* Claims about inbound messages, checked under SpecMsg.                   *)
(***************************************************************************)
\* C20: addApiEmailMessage for an id that is not in the table, or whose
\* entity has expiresAt <= now, returns false and leaves the table, and so
\* every message list, as it was; for a live entity it returns true, the
\* new message is the first of its list and no other entity changes.
C20_AppendOnlyToLive ==
  [][last'.name = "append"
       => LET emailId == last'.args.emailId
              live == emailId \in DOMAIN apiEmailStore
                      /\ apiEmailStore[emailId].expiresAt > now
          IN IF live
               THEN /\ last'.ret = RetBool(TRUE)
                    /\ Head(apiEmailStore'[emailId].messages) = last'.args.messageData
                    /\ \A i \in DOMAIN apiEmailStore \ {emailId} :
                         apiEmailStore'[i] = apiEmailStore[i]
               ELSE /\ last'.ret = RetBool(FALSE)
                    /\ UNCHANGED storeVars
    ]_vars

\* reached: a message for an expired entity that holds messages from
\* before its expiry has just been refused
C20_Witness ==
  /\ IsCall("append")
  /\ last.ret = RetBool(FALSE)
  /\ last.pre # NoEntity
  /\ last.pre.expiresAt <= now
  /\ Len(last.pre.messages) >= 2
  /\ apiEmailStore[last.args.emailId] = last.pre

(***************************************************************************)
(* The list specification: entities of two tiers created at different      *)
(* times, listed while some are expired and some are not.                  *)

(***************************************************************************)
(* The Gmail alias service.  Strings that the code concatenates and        *)
(* searches (client keys, cache keys) are sequences of characters.         *)
(***************************************************************************)
GmailUsers == {<<"u">>}
\* the candidates generateDotAlias / generatePlusAlias can draw
Candidates == {<<"a">>, <<"b">>}
\* the alias query parameter of a websocket is any string, the empty one included
SocketAliases == {<<"a">>, <<"a", "x">>, <<>>}
EmailIds == {<<"1">>}

\* String.prototype.includes
Includes(s, t) ==
  \E i \in 0..(Len(s) - Len(t)) : SubSeq(s, i + 1, i + Len(t)) = t

\* String.prototype.startsWith
StartsWith(s, t) == Len(t) <= Len(s) /\ SubSeq(s, 1, Len(t)) = t

\* `${userId}:${alias}`
ClientKey(userId, alias) == userId \o <<":">> \o alias

\* `${aliasEmail}:${emailData.id}`
CacheKey(aliasEmail, id) == aliasEmail \o <<":">> \o id

RECURSIVE SelectSeqBy(_, _)
\* the entries of a sequence that are in a set, in order
SelectSeqBy(seq, keep) ==
  IF seq = <<>> THEN <<>>
  ELSE IF Head(seq) \in keep THEN <<Head(seq)>> \o SelectSeqBy(Tail(seq), keep)
       ELSE SelectSeqBy(Tail(seq), keep)

isAliasActive(cache, alias, t) ==
  IF alias \notin DOMAIN cache THEN FALSE
  ELSE t - cache[alias].lastUsed <= AliasTTL

RECURSIVE ClientsOf(_, _)
\* the loop over connectedClients.entries() of notifyClients
ClientsOf(entries, alias) ==
  IF entries = <<>> THEN <<>>
  ELSE (IF Includes(Head(entries).key, <<":">> \o alias) THEN Head(entries).set ELSE <<>>)
         \o ClientsOf(Tail(entries), alias)

RECURSIVE SendAllUntilThrow(_, _)
SendAllUntilThrow(clients, throwers) ==
  IF clients = <<>> THEN <<>>
  ELSE IF Head(clients) \in throwers THEN <<[client |-> Head(clients), threw |-> TRUE]>>
       ELSE <<[client |-> Head(clients), threw |-> FALSE]>>
              \o SendAllUntilThrow(Tail(clients), throwers)

RECURSIVE SendAll(_, _)
\* one client.send per client, each in its own try/catch
SendAll(clients, throwers) ==
  IF clients = <<>> THEN <<>>
  ELSE <<[client |-> Head(clients), threw |-> Head(clients) \in throwers]>>
         \o SendAll(Tail(clients), throwers)

\* the sends notifyClients makes: throwers are the sockets whose send throws
notifyClients(alias, throwers) ==
  IF ~isAliasActive(aliasCache, alias, now) THEN <<>>
  ELSE LET clients == ClientsOf(connectedClients, alias)
           open == {ws \in Range(clients) : sockets[ws].readyState = 1}
       IN SendAll(SelectSeqBy(clients, open), throwers)

HasKey(entries, key) == \E i \in 1..Len(entries) : entries[i].key = key

RECURSIVE AddClient(_, _, _)
\* connectedClients.get(clientKey).add(ws)
AddClient(entries, key, ws) ==
  IF entries = <<>> THEN <<>>
  ELSE IF Head(entries).key = key
       THEN <<[key |-> key, set |-> Append(Head(entries).set, ws)]>> \o Tail(entries)
       ELSE <<Head(entries)>> \o AddClient(Tail(entries), key, ws)

RECURSIVE RemoveClient(_, _, _)
\* connectedClients.get(clientKey).delete(ws), and the key with its last socket
RemoveClient(entries, key, ws) ==
  IF entries = <<>> THEN <<>>
  ELSE IF Head(entries).key = key
       THEN LET rest == SelectSeqBy(Head(entries).set, Range(Head(entries).set) \ {ws})
            IN IF rest = <<>> THEN Tail(entries)
               ELSE <<[key |-> key, set |-> rest]>> \o Tail(entries)
       ELSE <<Head(entries)>> \o RemoveClient(Tail(entries), key, ws)

\* wss.on('connection')
wsConnect(userId, alias) ==
  LET ws == Cardinality(DOMAIN sockets) + 1
      clientKey == ClientKey(userId, alias)
      args == [userId |-> userId, alias |-> alias]
  IN /\ ws <= MaxClients
     /\ IF userId = <<>> \/ alias = <<>>
        THEN /\ sockets' = ws :> [readyState |-> 3, userId |-> userId, alias |-> alias,
                                  clientKey |-> clientKey] @@ sockets
             /\ UNCHANGED connectedClients
        ELSE /\ sockets' = ws :> [readyState |-> 1, userId |-> userId, alias |-> alias,
                                  clientKey |-> clientKey] @@ sockets
             /\ connectedClients' =
                  AddClient(IF HasKey(connectedClients, clientKey) THEN connectedClients
                            ELSE Append(connectedClients, [key |-> clientKey, set |-> <<>>]),
                            clientKey, ws)
     /\ last' = [name |-> "wsConnect", args |-> args, ret |-> RetNone, pre |-> NoEntity]
     /\ UNCHANGED <<now, storeVars, usageCounters, timers, nextId, cacheVars, dbVars,
                    granted, queries, usageVars, aliasCache, emailCache, procVars>>

\* the peer starts the closing handshake: readyState CLOSING, no 'close' event yet
wsClosing(ws) ==
  /\ ws \in DOMAIN sockets
  /\ sockets[ws].readyState = 1
  /\ sockets' = [sockets EXCEPT ![ws].readyState = 2]
  /\ last' = [name |-> "wsClosing", args |-> [ws |-> ws], ret |-> RetNone, pre |-> NoEntity]
  /\ UNCHANGED <<now, storeVars, usageCounters, timers, nextId, cacheVars, dbVars,
                 granted, queries, usageVars, aliasCache, connectedClients, emailCache, procVars>>

\* ws.on('close')
wsClose(ws) ==
  /\ ws \in DOMAIN sockets
  /\ sockets[ws].readyState \in {1, 2}
  /\ sockets' = [sockets EXCEPT ![ws].readyState = 3]
  /\ connectedClients' =
       IF HasKey(connectedClients, sockets[ws].clientKey)
       THEN RemoveClient(connectedClients, sockets[ws].clientKey, ws)
       ELSE connectedClients
  /\ last' = [name |-> "wsClose", args |-> [ws |-> ws], ret |-> RetNone, pre |-> NoEntity]
  /\ UNCHANGED <<now, storeVars, usageCounters, timers, nextId, cacheVars, dbVars,
                 granted, queries, usageVars, aliasCache, emailCache, procVars>>

\* the candidates one call draws: the first k are c, the others f
Draws(k, c, f) == [i \in 1..MaxAttempts |-> IF i <= k THEN c ELSE f]

RECURSIVE GenerateLoop(_, _, _)
\* do { alias = generate...; attempts++ } while (aliasCache.has(alias) && attempts < maxAttempts)
GenerateLoop(draws, cache, attempts) ==
  LET alias == draws[attempts + 1]
      n == attempts + 1
  IN IF alias \in DOMAIN cache /\ n < MaxAttempts
     THEN GenerateLoop(draws, cache, n)
     ELSE [alias |-> alias, attempts |-> n,
           exhausted |-> n >= MaxAttempts]

ExhaustedError == RetError("Unable to generate unique alias after multiple attempts")

generateGmailAlias(userId, draws, accountsOk, updateOk) ==
  LET args == [userId |-> userId, draws |-> draws, accountsOk |-> accountsOk,
               updateOk |-> updateOk]
      loop == GenerateLoop(draws, aliasCache, 0)
  IN /\ IF ~accountsOk
        THEN /\ last' = [name |-> "generateGmailAlias", args |-> args,
                         ret |-> RetError("No Gmail accounts available"),
                         pre |-> aliasCache, attempts |-> 0]
             /\ UNCHANGED aliasCache
        ELSE IF loop.exhausted
        THEN /\ last' = [name |-> "generateGmailAlias", args |-> args,
                         ret |-> ExhaustedError,
                         pre |-> aliasCache, attempts |-> loop.attempts]
             /\ UNCHANGED aliasCache
        ELSE /\ aliasCache' = loop.alias :> [userId |-> userId, lastUsed |-> now]
                                @@ aliasCache
             /\ last' = [name |-> "generateGmailAlias", args |-> args,
                         ret |-> IF updateOk THEN [kind |-> "alias", val |-> loop.alias]
                                 ELSE RetError("update"),
                         pre |-> aliasCache, attempts |-> loop.attempts]
     /\ UNCHANGED <<now, storeVars, usageCounters, timers, nextId, cacheVars, dbVars,
                    granted, queries, usageVars, connectedClients, sockets, emailCache, procVars>>

\* the webhook's call, with the sends of notifyClients
storeReceivedEmail(aliasEmail, id, throwers) ==
  LET args == [aliasEmail |-> aliasEmail, id |-> id, throwers |-> throwers]
      pre == [aliasCache |-> aliasCache, now |-> now]
  IN /\ IF aliasEmail \notin DOMAIN aliasCache
        THEN /\ last' = [name |-> "storeReceivedEmail", args |-> args,
                         ret |-> RetBool(FALSE), pre |-> pre, sends |-> <<>>]
             /\ UNCHANGED <<aliasCache, emailCache>>
        ELSE /\ emailCache' = CacheKey(aliasEmail, id) :>
                                 [id |-> id, timestamp |-> now,
                                  receivedFor |-> aliasCache[aliasEmail].userId]
                               @@ emailCache
             /\ aliasCache' = [aliasCache EXCEPT ![aliasEmail].lastUsed = now]
             /\ last' = [name |-> "storeReceivedEmail", args |-> args,
                         ret |-> RetBool(TRUE), pre |-> pre,
                         sends |-> notifyClients(aliasEmail, throwers)]
     /\ UNCHANGED <<now, storeVars, usageCounters, timers, nextId, cacheVars, dbVars,
                    granted, queries, usageVars, connectedClients, sockets, procVars>>

cleanupInactiveAliases ==
  LET gone == {alias \in DOMAIN aliasCache : now - aliasCache[alias].lastUsed > AliasTTL}
  IN /\ aliasCache' = [alias \in DOMAIN aliasCache \ gone |-> aliasCache[alias]]
     /\ emailCache' = [key \in {k \in DOMAIN emailCache :
                                   ~\E alias \in gone : StartsWith(k, alias \o <<":">>)}
                         |-> emailCache[key]]
     /\ last' = [name |-> "cleanupInactiveAliases", args |-> <<>>, ret |-> RetNone,
                 pre |-> NoEntity]
     /\ UNCHANGED <<now, storeVars, usageCounters, timers, nextId, cacheVars, dbVars,
                    granted, queries, usageVars, connectedClients, sockets, procVars>>

(***************************************************************************)
(* The alias specification: aliases are generated, go past their TTL and   *)
(* are swept, while websockets subscribe and the webhook delivers.         *)
(***************************************************************************)
AliasGenerate ==
  \E userId \in GmailUsers, k \in {0, MaxAttempts - 1, MaxAttempts},
     c \in Candidates, f \in Candidates, ok \in {<<TRUE, TRUE>>, <<FALSE, TRUE>>, <<TRUE, FALSE>>} :
    generateGmailAlias(userId, Draws(k, c, f), ok[1], ok[2])

AliasConnect == \E userId \in GmailUsers, alias \in SocketAliases : wsConnect(userId, alias)

AliasClosing == \E ws \in DOMAIN sockets : wsClosing(ws)

AliasClose == \E ws \in DOMAIN sockets : wsClose(ws)

AliasStore ==
  \E aliasEmail \in Candidates, id \in EmailIds, throwers \in SUBSET (DOMAIN sockets) :
    storeReceivedEmail(aliasEmail, id, throwers)

AliasCleanup == cleanupInactiveAliases

\* the clock reaches the last instant of an alias's life, then the first after it
AliasTick == Tick(IF now < StartTime + AliasTTL THEN AliasTTL ELSE 1,
                  AliasTTL + MaxAliasTicks - 1)

NextAlias ==
  \/ AliasGenerate
  \/ AliasConnect
  \/ AliasClosing
  \/ AliasClose
  \/ AliasStore
  \/ AliasCleanup
  \/ AliasTick

SpecAlias == Init /\ [][NextAlias]_vars


\* the open sockets registered for an alias: the subscribers of that alias
OpenSubscribers(alias) ==
  {ws \in DOMAIN sockets :
     /\ sockets[ws].alias = alias
     /\ sockets[ws].readyState = 1
     /\ \E i \in 1..Len(connectedClients) : ws \in Range(connectedClients[i].set)}

Stored(rec) == rec.name = "storeReceivedEmail"

\* C24: every socket a delivery pushes the new message to subscribed to an
\* alias that is in aliasCache with lastUsed within ALIAS_TTL at the time of
\* the delivery; a subscriber of an absent or expired alias is sent nothing.
C24_OnlyLiveSubscribers ==
  Stored(last) =>
    \A i \in 1..Len(last.sends) :
      isAliasActive(last.pre.aliasCache, sockets[last.sends[i].client].alias,
                    last.pre.now)

\* C25: when a send of a delivery throws, the message is stored, the call
\* returns true, and every open subscriber of the alias has had exactly one
\* send: the others are not skipped and the failed one is not sent again.
C25_FailedPushIsolated ==
  (Stored(last) /\ \E i \in 1..Len(last.sends) : last.sends[i].threw) =>
    /\ last.ret = RetBool(TRUE)
    /\ CacheKey(last.args.aliasEmail, last.args.id) \in DOMAIN emailCache
    /\ \A ws \in OpenSubscribers(last.args.aliasEmail) :
         Cardinality({i \in 1..Len(last.sends) : last.sends[i].client = ws}) = 1

\* a delivery whose first send threw and whose second subscriber was still sent
C25_Witness ==
  /\ Stored(last)
  /\ Len(last.sends) = 2
  /\ last.sends[1].threw
  /\ ~last.sends[2].threw
  /\ last.sends[2].client \in OpenSubscribers(last.args.aliasEmail)
  /\ last.ret = RetBool(TRUE)

Generated(rec) ==
  /\ rec.name = "generateGmailAlias"
  /\ rec.args.accountsOk
  /\ rec.args.updateOk

Unused(rec) == {i \in 1..MaxAttempts : rec.args.draws[i] \notin DOMAIN rec.pre}

\* C26: a generation makes at most 10 attempts; it fails with the exhaustion
\* error exactly when all 10 candidates are in aliasCache; otherwise it
\* returns the first unused candidate, the 10th included, and the aliases
\* that were in aliasCache are neither returned nor changed.
C26_ExhaustedIffAllCollide ==
  Generated(last) =>
    /\ last.attempts <= MaxAttempts
    /\ (last.ret = ExhaustedError) <=> (Unused(last) = {})
    /\ Unused(last) # {} =>
         /\ last.ret.kind = "alias"
         /\ \E i \in Unused(last) :
              /\ \A j \in Unused(last) : i <= j
              /\ last.ret.val = last.args.draws[i]
    /\ \A alias \in DOMAIN last.pre :
         /\ alias \in DOMAIN aliasCache
         /\ aliasCache[alias] = last.pre[alias]
         /\ last.ret # [kind |-> "alias", val |-> alias]


(***************************************************************************)
(* Shutdown.  syncUsageToDatabase is the five-minute loop of the entity    *)
(* store; the signal handlers are those of customDomainRateLimit.js.       *)
(***************************************************************************)
\* toISOString().split('T')[0], as its groups between the dashes
DateParts(day) == <<"YYYY", "MM", DayOfMonth(day)>>

\* `${userId}-${today}`, as its groups between the dashes
KeyParts(key) == <<key[1]>> \o DateParts(key[2])

\* key.substring(0, lastDashIndex)
SyncUserId(key) == SubSeq(KeyParts(key), 1, Len(KeyParts(key)) - 1)

\* key.substring(lastDashIndex + 1)
SyncDate(key) == SubSeq(KeyParts(key), Len(KeyParts(key)), Len(KeyParts(key)))

\* /^\d{4}-\d{2}-\d{2}$/.test(date): three groups of digits
IsIsoDate(date) == Len(date) = 3

\* one run of the loop; a key whose date fails the test is skipped before
\* the query, so a run that skips every key has no suspension
syncUsageToDatabase(dbOk) ==
  LET valid == {key \in DOMAIN usageCounters : IsIsoDate(SyncDate(key))}
      rows == {<<SyncUserId(key), SyncDate(key)>> : key \in valid}
      RowOf(r) == usageCounters[CHOOSE key \in valid :
                                  <<SyncUserId(key), SyncDate(key)>> = r]
  IN /\ ~process.exited
     /\ dbUsageDaily' = IF dbOk
                          THEN [r \in DOMAIN dbUsageDaily \cup rows |->
                                  IF r \in rows THEN RowOf(r) ELSE dbUsageDaily[r]]
                          ELSE dbUsageDaily
     /\ process' = [process EXCEPT !.synced = process.signal # "none"]
     /\ last' = [name |-> "syncUsageToDatabase", args |-> <<dbOk>>, ret |-> RetNone,
                 pre |-> NoEntity]
     /\ UNCHANGED <<now, storeVars, usageCounters, timers, nextId, cacheVars, dbVars,
                    granted, queries, usageVars, gmailVars, limitVars>>

\* process.on('SIGTERM' / 'SIGINT'): the handler calls flushPendingOperations,
\* which returns at once on an empty queue
Signal(sig) ==
  /\ process.signal = "none"
  /\ flush["signal"].pc = "idle"
  /\ process' = [Running EXCEPT !.signal = sig, !.counters = usageCounters]
  /\ IF DOMAIN pendingOperations = {}
       THEN UNCHANGED <<flush, issued>>
       ELSE /\ flush' = [flush EXCEPT !["signal"] = [Idle EXCEPT !.pc = "begin"]]
            /\ issued' = [u \in Owners |-> FlushStarted(issued[u])]
  /\ last' = [name |-> "signal", args |-> <<sig>>, ret |-> RetNone, pre |-> NoEntity]
  /\ UNCHANGED <<now, storeVars, usageCounters, timers, nextId, cacheVars, dbVars,
                 granted, queries, users, pendingOperations, pendingOrder, gmailVars,
                 dbUsageDaily, limitVars>>

\* the process ends once the handler of the signal has returned
Exit ==
  /\ process.signal # "none"
  /\ ~process.exited
  /\ flush["signal"].pc = "idle"
  /\ process' = [process EXCEPT !.exited = TRUE]
  /\ last' = [name |-> "exit", args |-> <<>>, ret |-> RetNone, pre |-> NoEntity]
  /\ UNCHANGED <<now, storeVars, usageCounters, timers, nextId, cacheVars, dbVars,
                 granted, queries, usageVars, gmailVars, dbUsageDaily, limitVars>>

(***************************************************************************)
(* The shutdown specification: creates and increments fill the counters    *)
(* and the queue, the two loops run, a signal arrives, the process exits.  *)
(***************************************************************************)
ShutdownCreate ==
  /\ ~process.exited
  /\ createApiEmail("u1", "10min", NoDomain, "free", "aaaaaaaa", TRUE, TRUE, MaxShutdownIds)

ShutdownIncrement ==
  /\ ~process.exited
  /\ \E domainId \in DomainIds : incrementCustomDomainUsage(domainId, FALSE, MaxShutdownIncs)

ShutdownSync == \E dbOk \in BOOLEAN : syncUsageToDatabase(dbOk)

ShutdownFlushStart == ~process.exited /\ \E f \in IntervalFlushers : FlushStart(f)

ShutdownFlushBegin ==
  ~process.exited /\ \E f \in Flushers, dbOk \in BOOLEAN : FlushBegin(f, dbOk)

ShutdownFlushEntry ==
  ~process.exited /\ \E f \in Flushers, outcome \in Outcomes : FlushEntry(f, outcome)

ShutdownFlushCommit ==
  ~process.exited /\ \E f \in Flushers, dbOk \in BOOLEAN : FlushCommit(f, dbOk)

ShutdownSignal == \E sig \in {"SIGTERM", "SIGINT"} : Signal(sig)

ShutdownExit == Exit

NextShutdown ==
  \/ ShutdownCreate
  \/ ShutdownIncrement
  \/ ShutdownSync
  \/ ShutdownFlushStart
  \/ ShutdownFlushBegin
  \/ ShutdownFlushEntry
  \/ ShutdownFlushCommit
  \/ ShutdownSignal
  \/ ShutdownExit

SpecShutdown == Init /\ [][NextShutdown]_vars

\* C27: when the process has exited after SIGTERM or SIGINT, the flush of
\* the signal's handler has run to its end, the usage-counter sync has run
\* since the signal, and every usage counter that was in memory at the
\* signal has its row in api_usage_daily.
C27_FinalRunsBeforeExit ==
  process.exited =>
    /\ flush["signal"].pc = "idle"
    /\ process.synced
    /\ \A key \in DOMAIN process.counters :
         <<<<key[1]>>, DateParts(key[2])>> \in DOMAIN dbUsageDaily


(***************************************************************************)
(* POST /emails/create: the catch block maps the error by its message.     *)
(* A message is the sequence of its words.                                 *)
(***************************************************************************)
\* the messages of the errors createApiEmail throws
ErrorMessage(rec) ==
  IF rec.ret = RetError("Daily limit exceeded")
    THEN <<"Daily", "limit", "exceeded", "for", rec.args.timeTier, "emails">>
    ELSE <<"Domain", rec.args.customDomain, "is", "not", "available">>

CreateResponse(rec) ==
  IF rec.ret.kind # "error"
    THEN [status |-> 201, code |-> "success"]
  ELSE IF Includes(ErrorMessage(rec), <<"Daily", "limit", "exceeded">>)
    THEN [status |-> 429, code |-> "DAILY_LIMIT_EXCEEDED"]
  ELSE IF Includes(ErrorMessage(rec), <<"Custom", "domain">>)
    THEN [status |-> 400, code |-> "INVALID_DOMAIN"]
  ELSE [status |-> 500, code |-> "CREATION_FAILED"]

\* C28: a create refused for the daily quota is answered 429
\* DAILY_LIMIT_EXCEEDED and a create refused for its domain is answered 400
\* INVALID_DOMAIN; neither is answered CREATION_FAILED.
C28_DistinctErrorKinds ==
  (last.name = "create" /\ last.ret.kind = "error") =>
    /\ last.ret = RetError("Daily limit exceeded") =>
         CreateResponse(last) = [status |-> 429, code |-> "DAILY_LIMIT_EXCEEDED"]
    /\ last.ret = RetError("Domain is not available") =>
         CreateResponse(last) = [status |-> 400, code |-> "INVALID_DOMAIN"]
    /\ CreateResponse(last).code # "CREATION_FAILED"


\* the last step is a create whose validateUserDomain ended in its catch block
QueryFailed(l) ==
  /\ l.name = "create"
  /\ l.args.customDomain # NoDomain
  /\ l.ret # RetError("Daily limit exceeded")
  /\ ~l.list.known

\* C29: when the query of validateUserDomain fails while the owner has a
\* cached list, the create decides from that list: a requested domain that
\* is in it is accepted, the create returns an entity on that domain and
\* not the domain error.
C29_StaleListOnQueryFailure ==
  (/\ QueryFailed(last)
   /\ last.args.userId \in DOMAIN userDomainsCache
   /\ last.args.customDomain \in userDomainsCache[last.args.userId].domains)
    => /\ last.ret.kind = "entity"
       /\ last.ret.val.domain = last.args.customDomain


\* the usage counter is dated more than 7 days before the day of t
OlderThanSevenDays(key, t) == key[2] < DayOf(t) - 7

\* C30: a run of cleanupExpiredData at time t removes every entity with
\* expiresAt <= t from the table and both indexes, every owner's
\* domain-cache entry with expiresAt <= t, and every usage counter dated
\* more than 7 days before t; all other entities, entries and counters are
\* as they were.
C30_SweepRemovesExactlyExpired ==
  [][last'.name = "sweep" =>
       LET dead == {i \in DOMAIN apiEmailStore : Expired(apiEmailStore[i])}
           liveOwners == {u \in DOMAIN userDomainsCache :
                            userDomainsCache[u].expiresAt > now}
           recent == {k \in DOMAIN usageCounters : ~OlderThanSevenDays(k, now)}
       IN /\ apiEmailStore' = [i \in DOMAIN apiEmailStore \ dead |-> apiEmailStore[i]]
          /\ \A u \in DOMAIN userApiEmailIndex' : userApiEmailIndex'[u] \cap dead = {}
          /\ \A u \in DOMAIN userApiEmailIndex :
               /\ u \in DOMAIN userApiEmailIndex'
               /\ userApiEmailIndex[u] \ dead \subseteq userApiEmailIndex'[u]
          /\ \A a \in DOMAIN emailToApiUserMap' : emailToApiUserMap'[a].emailId \notin dead
          /\ \A a \in DOMAIN emailToApiUserMap :
               emailToApiUserMap[a].emailId \notin dead =>
                 /\ a \in DOMAIN emailToApiUserMap'
                 /\ emailToApiUserMap'[a] = emailToApiUserMap[a]
          /\ userDomainsCache' = [u \in liveOwners |-> userDomainsCache[u]]
          /\ usageCounters' = [k \in recent |-> usageCounters[k]]]_vars


(***************************************************************************)
(* The race specification: one owner's creates of the tier with the        *)
(* smallest limit, some of them suspended in the query of                  *)
(* validateUserDomain between the quota check and the increment.           *)
(***************************************************************************)
RaceCreate ==
  createApiEmail("u1", "1day", NoDomain, "free", "aaaaaaaa", TRUE, TRUE, MaxRaceIds)

RaceQuery ==
  \E customDomain \in {"cust.test", "pub.test"} :
    validateUserDomainQuery("u1", "1day", customDomain, "free", MaxRaceIds, MaxRaceQueries)

RaceResult ==
  \E q \in queries, rnd \in LocalParts, dbOk1 \in BOOLEAN :
    validateUserDomainResult(q, rnd, dbOk1, TRUE)

NextRace ==
  \/ RaceCreate
  \/ RaceQuery
  \/ RaceResult

SpecRace == Init /\ [][NextRace]_vars

\* C31: on one day the creates of a non-privileged owner that succeed for a
\* tier, and the count stored for that owner, day and tier, never exceed
\* the tier's daily limit, however the suspended creates interleave.
C31_QuotaUnderInterleaving ==
  /\ \A k \in DOMAIN granted :
       QuotaLevel(k[1]) \notin Privileged => granted[k] <= FREE_LIMITS(k[2])
  /\ \A key \in DOMAIN usageCounters, t \in Tiers :
       QuotaLevel(key[1]) \notin Privileged => usageCounters[key][t] <= FREE_LIMITS(t)


\* C32: when runs of flushPendingOperations overlap (the periodic run and
\* the run of a signal handler), every pending delta reaches the table at
\* most once: an owner's lifetime total in the table never exceeds the
\* number of increments issued for the owner.
C32_DeltaAtMostOnce ==
  \A userId \in Owners : DbTotal(userId) <= issued[userId].n


\* the daily count of an owner in the table
RECURSIVE SumDaily(_, _)
SumDaily(table, ids) ==
  IF ids = {} THEN 0
  ELSE LET d == CHOOSE x \in ids : TRUE
       IN table[d].daily_count + SumDaily(table, ids \ {d})

DbDaily(userId) ==
  SumDaily(dbCustomDomains, {d \in DOMAIN dbCustomDomains :
                               /\ dbCustomDomains[d].user_id = userId
                               /\ dbCustomDomains[d].status = "verified"})

\* the run that just finished committed, every statement of it succeeded,
\* and the queue it cleared was the queue it had read: no counter operation
\* ran since it started
QuietCommit ==
  /\ FlushFinished
  /\ last.ret.committed
  /\ last.ret.arrived = {}
  /\ last.pre = last.ret.seen
  /\ DOMAIN last.ret.seen \subseteq last.ret.ok

\* every row of the owner is verified
AllVerified(userId) ==
  \A d \in DOMAIN dbCustomDomains :
    dbCustomDomains[d].user_id = userId => dbCustomDomains[d].status = "verified"

\* C33: after a flush that committed with no counter operation since its
\* start, the daily and total counts of every cached owner in the table,
\* summed over the owner's verified domains, equal the owner's dailyCount
\* and totalCount in memory (for an owner all of whose domains are
\* verified).
C33_CacheEqualsStorage ==
  QuietCommit =>
    \A userId \in DOMAIN users :
      AllVerified(userId) =>
        /\ DbDaily(userId) = users[userId].dailyCount
        /\ DbTotal(userId) = users[userId].totalCount


\* C34: a checkCustomDomainLimits for an owner with no entry in the cache
\* answers with the lifetime count of durable storage, and so refuses an
\* owner whose stored count has reached the limit.
C34_MissLoadsFromStorage ==
  [][(last'.name = "checkCustomDomainLimits" /\ last'.args[1] \notin DOMAIN users) =>
       /\ last'.ret.totalCount = DbTotal(last'.args[1])
       /\ last'.ret.canCreate => DbTotal(last'.args[1]) < TOTAL_LIMIT]_vars


\* C35: a step that is not the end of a flush, and so every cleanup of the
\* cache, the hourly one and the one inside getUserUsage, leaves every
\* queued delta in pendingOperations: no entry disappears and no queued
\* total shrinks.
C35_CleanupKeepsPending ==
  [][last'.name # "flushPendingOperations" =>
       \A userId \in DOMAIN pendingOperations :
         /\ userId \in DOMAIN pendingOperations'
         /\ pendingOperations'[userId].totalDelta >= pendingOperations[userId].totalDelta]_vars


\* findApiUserByEmail(emailAddress)
findApiUserByEmail(emailAddress) ==
  IF emailAddress \in DOMAIN emailToApiUserMap
    THEN [kind |-> "route", val |-> emailToApiUserMap[emailAddress]]
    ELSE RetNull

\* C36: every entity of the table that is not expired is routable: its id
\* is in its owner's set of the owner index, and findApiUserByEmail on its
\* address returns its own owner and id.
C36_LiveEntityRoutable ==
  \A i \in DOMAIN apiEmailStore :
    ~Expired(apiEmailStore[i]) =>
      /\ apiEmailStore[i].userId \in DOMAIN userApiEmailIndex
      /\ i \in userApiEmailIndex[apiEmailStore[i].userId]
      /\ findApiUserByEmail(apiEmailStore[i].email) =
           [kind |-> "route",
            val |-> [userId |-> apiEmailStore[i].userId, emailId |-> i]]


(***************************************************************************)
(* Reading an alias's cached emails, and rotating a user's alias.  Two     *)
(* users draw their aliases from the same candidates.                      *)
(***************************************************************************)
FetchUsers == {<<"u">>, <<"v">>}

RECURSIVE NewestFirst(_)
\* cachedEmails.sort((a, b) => b.timestamp - a.timestamp)
NewestFirst(keys) ==
  IF keys = {} THEN <<>>
  ELSE LET k == CHOOSE x \in keys :
                  \A y \in keys : emailCache[x].timestamp >= emailCache[y].timestamp
       IN <<emailCache[k]>> \o NewestFirst(keys \ {k})

fetchGmailEmails(userId, aliasEmail) ==
  LET args == [userId |-> userId, aliasEmail |-> aliasEmail]
      pre == [aliasCache |-> aliasCache, now |-> now]
  IN /\ IF aliasEmail \notin DOMAIN aliasCache
        THEN /\ last' = [name |-> "fetchGmailEmails", args |-> args,
                         ret |-> RetError("Alias not found or expired"), pre |-> pre]
             /\ UNCHANGED aliasCache
        ELSE IF aliasCache[aliasEmail].userId # userId
        THEN /\ last' = [name |-> "fetchGmailEmails", args |-> args,
                         ret |-> RetError("Unauthorized access to alias"), pre |-> pre]
             /\ UNCHANGED aliasCache
        ELSE /\ aliasCache' = [aliasCache EXCEPT ![aliasEmail].lastUsed = now]
             /\ last' = [name |-> "fetchGmailEmails", args |-> args,
                         ret |-> RetList(NewestFirst(
                                   {key \in DOMAIN emailCache :
                                      StartsWith(key, aliasEmail \o <<":">>)})),
                         pre |-> pre]
     /\ UNCHANGED <<now, storeVars, usageCounters, timers, nextId, cacheVars, dbVars,
                    granted, queries, usageVars, connectedClients, sockets, emailCache,
                    procVars>>

\* the user's aliases are removed, then generateGmailAlias runs on what is left
rotateUserAlias(userId, draws, accountsOk, updateOk) ==
  LET args == [userId |-> userId, draws |-> draws, accountsOk |-> accountsOk,
               updateOk |-> updateOk]
      kept == [alias \in {a \in DOMAIN aliasCache : aliasCache[a].userId # userId}
                 |-> aliasCache[alias]]
      loop == GenerateLoop(draws, kept, 0)
  IN /\ IF ~accountsOk
        THEN /\ last' = [name |-> "rotateUserAlias", args |-> args,
                         ret |-> RetError("No Gmail accounts available"),
                         pre |-> aliasCache, attempts |-> 0]
             /\ aliasCache' = kept
        ELSE IF loop.exhausted
        THEN /\ last' = [name |-> "rotateUserAlias", args |-> args,
                         ret |-> ExhaustedError,
                         pre |-> aliasCache, attempts |-> loop.attempts]
             /\ aliasCache' = kept
        ELSE /\ aliasCache' = loop.alias :> [userId |-> userId, lastUsed |-> now]
                                @@ kept
             /\ last' = [name |-> "rotateUserAlias", args |-> args,
                         ret |-> IF updateOk THEN [kind |-> "alias", val |-> loop.alias]
                                 ELSE RetError("update"),
                         pre |-> aliasCache, attempts |-> loop.attempts]
     /\ UNCHANGED <<now, storeVars, usageCounters, timers, nextId, cacheVars, dbVars,
                    granted, queries, usageVars, connectedClients, sockets, emailCache,
                    procVars>>

FetchGenerate ==
  \E userId \in FetchUsers, k \in {0, 1}, c \in Candidates, f \in Candidates :
    generateGmailAlias(userId, Draws(k, c, f), TRUE, TRUE)

FetchRotate ==
  \E userId \in FetchUsers, k \in {0, 1}, c \in Candidates, f \in Candidates,
     accountsOk \in BOOLEAN :
    rotateUserAlias(userId, Draws(k, c, f), accountsOk, TRUE)

FetchStore ==
  \E aliasEmail \in Candidates, id \in EmailIds : storeReceivedEmail(aliasEmail, id, {})

FetchRead ==
  \E userId \in FetchUsers, aliasEmail \in Candidates : fetchGmailEmails(userId, aliasEmail)

FetchCleanup == cleanupInactiveAliases

FetchTick == Tick(IF now < StartTime + AliasTTL THEN AliasTTL ELSE 1,
                  AliasTTL + MaxFetchTicks - 1)

NextFetch ==
  \/ FetchGenerate
  \/ FetchRotate
  \/ FetchStore
  \/ FetchRead
  \/ FetchCleanup
  \/ FetchTick

SpecFetch == Init /\ [][NextFetch]_vars

\* C37: the messages fetchGmailEmails(user, alias) returns were all stored
\* while the alias belonged to that user.
C37_OnlyOwnMessages ==
  (last.name = "fetchGmailEmails" /\ last.ret.kind = "list") =>
    \A i \in 1..Len(last.ret.val) : last.ret.val[i].receivedFor = last.args.userId


\* C38: every socket a delivery for an alias pushes to is registered under
\* the key of exactly that alias and of the user who owns the alias.
C38_OnlyOwnersSubscribers ==
  Stored(last) =>
    \A i \in 1..Len(last.sends) :
      /\ sockets[last.sends[i].client].alias = last.args.aliasEmail
      /\ sockets[last.sends[i].client].clientKey =
           ClientKey(last.pre.aliasCache[last.args.aliasEmail].userId,
                     last.args.aliasEmail)


\* C39: an entity past its expiresAt that is still in the table is absent
\* for every operation: deleteApiEmail on it returns false, and
\* findApiUserByEmail on its address returns null.
C39_ExpiredIsAbsent ==
  /\ (IsCall("delete") /\ last.pre # NoEntity /\ last.pre.expiresAt <= now) =>
       last.ret = RetBool(FALSE)
  /\ \A i \in DOMAIN apiEmailStore :
       Expired(apiEmailStore[i]) =>
         findApiUserByEmail(apiEmailStore[i].email) = RetNull


(***************************************************************************)
(* The per-minute rate limiter, apiRateLimit(requestsPerMinute).  A key of *)
(* its Map is `${userId}-${windowStart}`: the groups between the dashes,   *)
(* each a sequence of characters.  User ids are UUIDs, cut here to their   *)
(* first two groups of two characters, or ids without a dash.              *)
(***************************************************************************)
DigitChars == <<"0", "1", "2", "3", "4", "5", "6", "7", "8", "9">>

IsDigit(c) == \E d \in 1..Len(DigitChars) : DigitChars[d] = c

DigitVal(c) == (CHOOSE d \in 1..Len(DigitChars) : DigitChars[d] = c) - 1

RECURSIVE ToDigits(_)
\* the decimal digits of a number, as template interpolation writes it
ToDigits(n) ==
  IF n < 10 THEN <<DigitChars[n + 1]>>
  ELSE ToDigits(n \div 10) \o <<DigitChars[(n % 10) + 1]>>

\* parseInt of a string with no leading digit
NaN == -1

RECURSIVE LeadingDigits(_, _)
LeadingDigits(chars, acc) ==
  IF chars = <<>> \/ ~IsDigit(Head(chars)) THEN acc
  ELSE LeadingDigits(Tail(chars), acc * 10 + DigitVal(Head(chars)))

\* parseInt(string): the number its leading digits write, NaN if it has none
ParseInt(chars) ==
  IF chars = <<>> \/ ~IsDigit(Head(chars)) THEN NaN
  ELSE LeadingDigits(chars, 0)

\* a < b in JavaScript: false when a is NaN
LessThan(a, b) == a # NaN /\ a < b

NumericId == << <<"7">> >>
UuidWithDigit == << <<"a", "1">>, <<"4", "f">> >>
UuidWithLetter == << <<"a", "2">>, <<"c", "9">> >>
RateUsers == {NumericId, UuidWithDigit, UuidWithLetter}

\* Date.now()
NowMs == now * MsPerTick

\* Math.floor(now / 60000) * 60000
WindowStart == (NowMs \div WindowMs) * WindowMs

\* now - 5 * 60 * 1000
FiveMinutesAgo == NowMs - FiveMinutesMs

\* `${userId}-${windowStart}`
RateKey(userId, windowStart) == userId \o <<ToDigits(windowStart)>>

\* const [, timestamp] = mapKey.split('-'); parseInt(timestamp)
KeyTimestamp(mapKey) == IF Len(mapKey) >= 2 THEN ParseInt(mapKey[2]) ELSE NaN

\* the keys the cleanup loop deletes
CleanedKeys(counts) == {mapKey \in DOMAIN counts :
                          LessThan(KeyTimestamp(mapKey), FiveMinutesAgo)}

\* the middleware apiRateLimit returns; random is Math.random() < 0.01
apiRateLimit(userId, userTier, random) ==
  LET args == [userId |-> userId, userTier |-> userTier, random |-> random]
      key == RateKey(userId, WindowStart)
      currentCount == IF key \in DOMAIN requestCounts THEN requestCounts[key] ELSE 0
      counted == (key :> currentCount + 1) @@ requestCounts
      window == <<userId, WindowStart>>
      before == IF window \in DOMAIN passed THEN passed[window] ELSE 0
  IN /\ IF userTier \in Privileged
        THEN /\ last' = [name |-> "apiRateLimit", args |-> args,
                         ret |-> [kind |-> "next"], pre |-> NoEntity]
             /\ UNCHANGED limitVars
        ELSE IF currentCount >= MaxPerMinute
        THEN /\ last' = [name |-> "apiRateLimit", args |-> args,
                         ret |-> [kind |-> "status", val |-> 429], pre |-> NoEntity]
             /\ UNCHANGED limitVars
        ELSE /\ before <= MaxPerMinute
             /\ requestCounts' =
                  IF random
                  THEN [mapKey \in DOMAIN counted \ CleanedKeys(counted) |-> counted[mapKey]]
                  ELSE counted
             /\ passed' = (window :> before + 1) @@ passed
             /\ last' = [name |-> "apiRateLimit", args |-> args,
                         ret |-> [kind |-> "next"], pre |-> NoEntity]
     /\ UNCHANGED <<now, storeVars, usageCounters, timers, nextId, cacheVars, dbVars,
                    granted, queries, usageVars, gmailVars, process, dbUsageDaily>>

RateRequest ==
  \E userId \in RateUsers, userTier \in {"free", "unlimited"}, random \in BOOLEAN :
    apiRateLimit(userId, userTier, random)

\* the clock passes to a window that starts ten minutes later
RateTick == Tick(2, MaxRateTicks)

NextRate ==
  \/ RateRequest
  \/ RateTick

SpecRate == Init /\ [][NextRate]_vars

\* C40: for a non-privileged user the limiter lets at most
\* requestsPerMinute requests pass in one window, and the keys a request's
\* cleanup deletes are those of windows that started more than five
\* minutes before it, never the current window's.
C40_AtMostNPerWindow ==
  [][/\ \A window \in DOMAIN passed' : passed'[window] <= MaxPerMinute
     /\ \A mapKey \in DOMAIN requestCounts \ DOMAIN requestCounts' :
          ParseInt(mapKey[Len(mapKey)]) < FiveMinutesAgo]_vars

(***************************************************************************)
ListCreate ==
  \E userId \in Owners, timeTier \in {"10min", "1hour"} :
    createApiEmail(userId, timeTier, NoDomain, QuotaLevel(userId), "aaaaaaaa", TRUE, TRUE,
                   MaxListIds)

ListTick == Tick(TenMin, MaxListTicks * TenMin)

NextList ==
  \/ ListCreate
  \/ StoreList
  \/ ListTick

SpecList == Init /\ [][NextList]_vars

\* the entities of the owner in the table that are not expired
LiveOf(userId) ==
  {apiEmailStore[i] : i \in {j \in DOMAIN apiEmailStore :
                               /\ apiEmailStore[j].userId = userId
                               /\ apiEmailStore[j].expiresAt > now}}

\* C21: getUserApiEmails(owner) returns the entities of the owner with
\* expiresAt > now, each once, by createdAt descending; when it returns, no
\* expired entity of the owner is in the entity table, the owner index or
\* the address index.
C21_ListLiveNewestFirst ==
  IsCall("list") =>
    LET userId == last.args.userId
        emails == last.ret.val
    IN /\ Range(emails) = LiveOf(userId)
       /\ Len(emails) = Cardinality(LiveOf(userId))
       /\ \A k \in 1..(Len(emails) - 1) : emails[k].createdAt >= emails[k + 1].createdAt
       /\ \A i \in DOMAIN apiEmailStore :
            apiEmailStore[i].userId = userId => apiEmailStore[i].expiresAt > now
       /\ userId \in DOMAIN userApiEmailIndex
            => \A i \in userApiEmailIndex[userId] :
                 i \in DOMAIN apiEmailStore /\ apiEmailStore[i].expiresAt > now
       /\ \A a \in DOMAIN emailToApiUserMap :
            emailToApiUserMap[a].userId = userId
              => /\ emailToApiUserMap[a].emailId \in DOMAIN apiEmailStore
                 /\ apiEmailStore[emailToApiUserMap[a].emailId].expiresAt > now

\* reached: a list of two entities created at different times, returned by
\* the call that removed an expired entity of the same owner
C21_Witness ==
  /\ IsCall("list")
  /\ Len(last.ret.val) = 2
  /\ last.ret.val[1].createdAt > last.ret.val[2].createdAt
  /\ \E t \in timers :
       /\ t.fireAt <= now
       /\ t.emailId \notin DOMAIN apiEmailStore

(***************************************************************************)
(* Claims about the counting of creates, checked under SpecQuota.          *)
(***************************************************************************)
\* C22 as stated: creates of an owner with a privileged level leave the
\* usage counters as they are (there is no counter of such an owner), and
\* a create of another owner raises the count of (owner, day, tier) by one.
C22_PrivilegedNotCounted ==
  /\ \A key \in DOMAIN usageCounters : QuotaLevel(key[1]) \notin Privileged
  /\ (Created(last) /\ last.args.userTier \notin Privileged)
       => UsageOf(usageCounters, <<last.args.userId, DayOf(now)>>)[last.args.timeTier] >= 1

\* C22 amended: a create of an owner with a privileged level is never
\* refused for the quota, and every create that returns an entity,
\* privileged or not, raises the count of (owner, day, tier) by one and
\* changes no other count; a create that fails changes no count.
C22_EveryCreateCounted ==
  [][last'.name = "create"
       => LET key == <<last'.args.userId, DayOf(now)>>
              timeTier == last'.args.timeTier
              before == UsageOf(usageCounters, key)
          IN IF last'.ret.kind = "entity"
               THEN /\ DOMAIN usageCounters' = DOMAIN usageCounters \cup {key}
                    /\ usageCounters'[key] = [before EXCEPT ![timeTier] = @ + 1]
                    /\ \A k \in DOMAIN usageCounters \ {key} :
                         usageCounters'[k] = usageCounters[k]
               ELSE /\ UNCHANGED usageCounters
                    /\ last'.ret = RetError(QuotaError) => last'.args.userTier \notin Privileged
    ]_vars

\* reached: an owner with the unlimited level has just created an entity of
\* a tier whose daily limit its count had already reached
C22_Witness ==
  /\ Created(last)
  /\ last.args.userTier \in Privileged
  /\ UsageOf(usageCounters, <<last.args.userId, DayOf(now)>>)[last.args.timeTier]
       > FREE_LIMITS(last.args.timeTier)

(***************************************************************************)
(* Claims about the calls of another owner, checked under SpecRemoval.     *)
(***************************************************************************)
\* what the call returns for an id that is not in the table
MissingAnswer(name) == IF name = "get" THEN RetNull ELSE RetBool(FALSE)

\* C23: getApiEmail and deleteApiEmail for an entity of another owner
\* return what they return for an id that is not in the table, null and
\* false, and leave the table, both indexes, the timers and the counters
\* as they are.
C23_OtherOwnerAsMissing ==
  [][(last'.name \in {"get", "delete"}
        /\ \/ last'.args.emailId \notin DOMAIN apiEmailStore
           \/ apiEmailStore[last'.args.emailId].userId # last'.args.userId)
       => /\ last'.ret = MissingAnswer(last'.name)
          /\ UNCHANGED <<storeVars, usageCounters, timers, users, pendingOperations>>
    ]_vars

\* reached: the other owner has just asked for the deletion of an expired
\* entity, got false, and the entity is where it was
C23_Witness ==
  /\ IsCall("delete")
  /\ last.ret = RetBool(FALSE)
  /\ Present(last.args.emailId)
  /\ apiEmailStore[last.args.emailId].userId # last.args.userId
  /\ apiEmailStore[last.args.emailId].expiresAt <= now
  /\ last.args.emailId \in userApiEmailIndex[apiEmailStore[last.args.emailId].userId]

=============================================================================
